---- MODULE Spec2Model ----
(***************************************************************************)
(* NUSched: schedule normalisation (parse_schedule) and calendar export    *)
(* (generate_ics) of src/nusched.py.                                        *)
(*                                                                         *)
(* Text is a sequence of one-character strings, so that parsing,           *)
(* formatting, stripping and escaping are computed character by character. *)
(* A Python value is a record [t |-> tag, v |-> content]:                  *)
(*   null, bool, num, str (characters), list (sequence of values),         *)
(*   dict (sequence of [k |-> key, val |-> value] in insertion order),     *)
(*   tuple (a pair of integers), date (proleptic Gregorian ordinal).       *)
(* The tag "err" stands for a raised exception.                            *)
(***************************************************************************)
EXTENDS Integers, Sequences, FiniteSets, TLC

VARIABLES
    pc,         \* position of the run: which step comes next
    payload,    \* the decoded JSON response handed to parse_schedule
    extracted,  \* what _extract_sections returned for the payload
    sections,   \* the section list parse_schedule built its records from
    result,     \* what parse_schedule did: [raised, courses]
    courses,    \* self.courses: the meeting records behind the table rows
    selected,   \* self.selected: the row flags, by row
    exported,   \* the list _on_generate passed to generate_ics
    bounds,     \* what _derive_semester_bounds returned at line 438
    clock,      \* the DTSTAMP text of the run (datetime.utcnow at line 450)
    lines,      \* the list `lines` of generate_ics at line 502
    file,       \* the text of schedule_export.ics
    timeArg,    \* the argument of _parse_time: its text and how it was built
    timeRet,    \* what _parse_time returned
    tree,       \* self.tree: the rows of the table, in order
    nextIid,    \* the number the Treeview gives the next row it inserts
    fetch_btn,  \* the state of self.fetch_btn
    gen_btn,    \* the state of gen_btn, sel_all_btn and desel_all_btn
    modal,      \* the open modal windows, the one holding the grab last
    workers,    \* the _fetch_worker threads that have not queued a callback
    pending,    \* the callbacks queued with root.after and not yet run
    chosen,     \* selected_courses of the _on_generate waiting at askyesno
    fetches     \* how many workers were started

\* The window and its worker.
app == <<tree, nextIid, fetch_btn, gen_btn, modal, workers, pending, chosen, fetches>>

vars == <<pc, payload, extracted, sections, result, courses, selected, exported,
          bounds, clock, lines, file, timeArg, timeRet, app>>

\* ------------------------------------------------------------------ bounds

\* Longest run of blanks put between the minutes and the AM/PM marker.
MaxWs == 2
\* Most entries a payload's section list holds.
MaxSections == 2
\* Most meeting records in the table.
MaxRecords == 3

\* ------------------------------------------------------- Python values

JNull == [t |-> "null", v |-> 0]
JErr == [t |-> "err", v |-> 0]
JBool(b) == [t |-> "bool", v |-> b]
JNum(n) == [t |-> "num", v |-> n]
JStr(s) == [t |-> "str", v |-> s]
JList(s) == [t |-> "list", v |-> s]
JDict(s) == [t |-> "dict", v |-> s]
PyTuple(a, b) == [t |-> "tuple", v |-> <<a, b>>]
PyDate(n) == [t |-> "date", v |-> n]
KV(key, value) == [k |-> key, val |-> value]

IsNone(x) == x.t = "null"
IsErr(x) == x.t = "err"
IsStr(x) == x.t = "str"
IsList(x) == x.t = "list"
IsDict(x) == x.t = "dict"

\* Python truth value: None, False, 0, "", [] and {} are false.
Truthy(x) ==
    CASE x.t = "null" -> FALSE
      [] x.t = "bool" -> x.v
      [] x.t = "num" -> x.v # 0
      [] x.t \in {"str", "list", "dict"} -> Len(x.v) > 0
      [] OTHER -> TRUE

\* dict `in`, dict.get(key, default) and dict.get(key).
HasKey(d, key) == \E i \in 1..Len(d.v) : d.v[i].k = key
GetD(d, key, default) ==
    IF HasKey(d, key)
    THEN d.v[CHOOSE i \in 1..Len(d.v) : d.v[i].k = key].val
    ELSE default
Get(d, key) == GetD(d, key, JNull)

\* The first of rec.get(key) over the keys that is true, else the default:
\* rec.get(k1) or rec.get(k2) or ... or default.
RECURSIVE FirstTruthy(_, _, _)
FirstTruthy(rec, keys, default) ==
    IF keys = <<>> THEN default
    ELSE IF Truthy(Get(rec, Head(keys))) THEN Get(rec, Head(keys))
    ELSE FirstTruthy(rec, Tail(keys), default)

\* table.get(key, default) for a constant table of [k, val] entries.
Lookup(table, key, default) ==
    IF \E i \in 1..Len(table) : table[i].k = key
    THEN table[CHOOSE i \in 1..Len(table) : table[i].k = key].val
    ELSE default

RECURSIVE Concat(_)
Concat(ss) == IF ss = <<>> THEN <<>> ELSE Head(ss) \o Concat(Tail(ss))

\* ---------------------------------------------------------------- text

Digits == <<"0", "1", "2", "3", "4", "5", "6", "7", "8", "9">>
UpperLetters == <<"A","B","C","D","E","F","G","H","I","J","K","L","M",
                  "N","O","P","Q","R","S","T","U","V","W","X","Y","Z">>
LowerLetters == <<"a","b","c","d","e","f","g","h","i","j","k","l","m",
                  "n","o","p","q","r","s","t","u","v","w","x","y","z">>
Whitespace == {" ", "\t", "\n", "\r"}

IndexIn(c, table) ==
    IF \E i \in 1..Len(table) : table[i] = c
    THEN CHOOSE i \in 1..Len(table) : table[i] = c
    ELSE 0

IsDigit(c) == IndexIn(c, Digits) > 0
DigitVal(c) == IndexIn(c, Digits) - 1

\* str.lower() and str.upper()
LowerChar(c) == IF IndexIn(c, UpperLetters) > 0
                THEN LowerLetters[IndexIn(c, UpperLetters)] ELSE c
UpperChar(c) == IF IndexIn(c, LowerLetters) > 0
                THEN UpperLetters[IndexIn(c, LowerLetters)] ELSE c
Lower(s) == [i \in 1..Len(s) |-> LowerChar(s[i])]
Upper(s) == [i \in 1..Len(s) |-> UpperChar(s[i])]

\* str.strip(): drop the white space at both ends.
RECURSIVE LStrip(_)
LStrip(s) == IF s # <<>> /\ Head(s) \in Whitespace THEN LStrip(Tail(s)) ELSE s
RECURSIVE RStrip(_)
RStrip(s) == IF s # <<>> /\ s[Len(s)] \in Whitespace
             THEN RStrip(SubSeq(s, 1, Len(s) - 1)) ELSE s
Strip(s) == RStrip(LStrip(s))

\* int(text) of a run of digits.
RECURSIVE ToInt(_)
ToInt(s) == IF s = <<>> THEN 0
            ELSE 10 * ToInt(SubSeq(s, 1, Len(s) - 1)) + DigitVal(s[Len(s)])

\* Decimal text of a natural number, and the same zero-padded to a width
\* (format specs 02d, %Y, %m, %d).
RECURSIVE NatText(_)
NatText(n) == IF n < 10 THEN <<Digits[n + 1]>>
              ELSE NatText(n \div 10) \o <<Digits[(n % 10) + 1]>>
RECURSIVE ZeroPad(_, _)
ZeroPad(s, width) == IF Len(s) >= width THEN s ELSE ZeroPad(<<"0">> \o s, width)
Pad2(n) == ZeroPad(NatText(n), 2)

\* ------------------------------------------------------------ _parse_time

\* (\d{1,2}):(\d{2}) at the start of s: the hour, the minute and the position
\* after the match; nxt = 0 when the text does not match.
MatchClock(s) ==
    IF Len(s) >= 4 /\ IsDigit(s[1]) /\ s[2] = ":" /\ IsDigit(s[3]) /\ IsDigit(s[4])
    THEN [h |-> DigitVal(s[1]), m |-> 10 * DigitVal(s[3]) + DigitVal(s[4]), nxt |-> 5]
    ELSE IF Len(s) >= 5 /\ IsDigit(s[1]) /\ IsDigit(s[2]) /\ s[3] = ":"
            /\ IsDigit(s[4]) /\ IsDigit(s[5])
    THEN [h |-> 10 * DigitVal(s[1]) + DigitVal(s[2]),
          m |-> 10 * DigitVal(s[4]) + DigitVal(s[5]), nxt |-> 6]
    ELSE [h |-> 0, m |-> 0, nxt |-> 0]

\* \s* from position i: the first position that holds no white space.
RECURSIVE SkipSpace(_, _)
SkipSpace(s, i) == IF i <= Len(s) /\ s[i] \in Whitespace THEN SkipSpace(s, i + 1) ELSE i

\* (AM|PM|am|pm) at position i, upper-cased; <<>> when no marker is there.
AmPmMarkers == {<<"A", "M">>, <<"P", "M">>, <<"a", "m">>, <<"p", "m">>}
MarkerAt(s, i) ==
    IF i + 1 <= Len(s) /\ SubSeq(s, i, i + 1) \in AmPmMarkers
    THEN Upper(SubSeq(s, i, i + 1)) ELSE <<>>

\* Lines 158-163 and 168: the hour h and minute mn under the marker ampm.
To24Hour(h, mn, ampm) ==
    IF ampm = <<"P", "M">> /\ h # 12 THEN PyTuple(h + 12, mn)
    ELSE IF ampm = <<"A", "M">> /\ h = 12 THEN PyTuple(0, mn)
    ELSE PyTuple(h, mn)

\* Lines 156-170 on the stripped text s with its clock match c: the 12-hour
\* pattern, else the 24-hour pattern, else None.
ClockOf(s, c) ==
    IF c.nxt = 0 THEN JNull
    ELSE To24Hour(c.h, c.m, MarkerAt(s, SkipSpace(s, c.nxt)))
ParseStripped(s) == ClockOf(s, MatchClock(s))

\* _parse_time on any value: a false value gives None, a true value that is
\* no str has no strip() and raises.
_parse_time(time_str) ==
    IF ~Truthy(time_str) THEN JNull
    ELSE IF ~IsStr(time_str) THEN JErr
    ELSE ParseStripped(Strip(time_str.v))

\* --------------------------------------------------------- _normalize_day

DAY_TO_BYDAY == <<
    KV(<<"s","u","n","d","a","y">>, JStr(<<"S","U">>)),
    KV(<<"m","o","n","d","a","y">>, JStr(<<"M","O">>)),
    KV(<<"t","u","e","s","d","a","y">>, JStr(<<"T","U">>)),
    KV(<<"w","e","d","n","e","s","d","a","y">>, JStr(<<"W","E">>)),
    KV(<<"t","h","u","r","s","d","a","y">>, JStr(<<"T","H">>)),
    KV(<<"f","r","i","d","a","y">>, JStr(<<"F","R">>)),
    KV(<<"s","a","t","u","r","d","a","y">>, JStr(<<"S","A">>)),
    KV(<<"s","u","n">>, JStr(<<"S","U">>)), KV(<<"m","o","n">>, JStr(<<"M","O">>)),
    KV(<<"t","u","e">>, JStr(<<"T","U">>)), KV(<<"w","e","d">>, JStr(<<"W","E">>)),
    KV(<<"t","h","u">>, JStr(<<"T","H">>)), KV(<<"f","r","i">>, JStr(<<"F","R">>)),
    KV(<<"s","a","t">>, JStr(<<"S","A">>)),
    KV(<<"s","u">>, JStr(<<"S","U">>)), KV(<<"m","o">>, JStr(<<"M","O">>)),
    KV(<<"t","u">>, JStr(<<"T","U">>)), KV(<<"w","e">>, JStr(<<"W","E">>)),
    KV(<<"t","h">>, JStr(<<"T","H">>)), KV(<<"f","r">>, JStr(<<"F","R">>)),
    KV(<<"s","a">>, JStr(<<"S","A">>)) >>

\* BYDAY code -> weekday number (Monday = 0 ... Sunday = 6)
BYDAY_TO_WEEKDAY == <<
    KV(<<"M","O">>, 0), KV(<<"T","U">>, 1), KV(<<"W","E">>, 2), KV(<<"T","H">>, 3),
    KV(<<"F","R">>, 4), KV(<<"S","A">>, 5), KV(<<"S","U">>, 6) >>

\* _normalize_day: None for a false value, the code of the stripped and
\* lower-cased name, None for a name that is not in the table.
_normalize_day_NoStrip(day_str) ==
    IF ~Truthy(day_str) THEN JNull
    ELSE IF ~IsStr(day_str) THEN JErr
    ELSE Lookup(DAY_TO_BYDAY, Lower(day_str.v), JNull)
_normalize_day(day_str) ==
    IF ~Truthy(day_str) THEN JNull
    ELSE IF ~IsStr(day_str) THEN JErr
    ELSE Lookup(DAY_TO_BYDAY, Lower(Strip(day_str.v)), JNull)

\* ------------------------------------------------ _extract_instructor_name

\* sep.join(parts)
RECURSIVE Join(_, _)
Join(sep, parts) ==
    IF parts = <<>> THEN <<>>
    ELSE IF Len(parts) = 1 THEN parts[1]
    ELSE parts[1] \o sep \o Join(sep, Tail(parts))

AnyErr(values) == \E i \in 1..Len(values) : IsErr(values[i])
\* The texts of the values that are not empty.
NonEmptyTexts(values) == SelectSeq([i \in 1..Len(values) |-> values[i].v], LAMBDA s : s # <<>>)

NameKeys == <<"firstName", "first", "middleName", "middle",
              "lastName", "last", "lastNamePrefix">>

\* Lines 191-193, one name part: `val and val.strip()` raises on a true value
\* that is no str (val is the part's value, "" when the key is absent).
NamePart(val) ==
    IF ~Truthy(val) THEN JStr(<<>>)
    ELSE IF ~IsStr(val) THEN JErr
    ELSE JStr(Strip(val.v))

\* Lines 188-194: the parts that are not empty, joined by one blank.
JoinParts_NoBlank(parts) ==
    IF AnyErr(parts) THEN JErr ELSE JStr(Join(<<>>, NonEmptyTexts(parts)))
JoinParts(parts) ==
    IF AnyErr(parts) THEN JErr ELSE JStr(Join(<<" ">>, NonEmptyTexts(parts)))

\* Lines 185-194 for a mapping whose fullName (or "") is full.
NameOfDict(instructor, full) ==
    IF ~IsStr(full) THEN JErr
    ELSE IF Strip(full.v) # <<>> THEN JStr(Strip(full.v))
    ELSE JoinParts([i \in 1..Len(NameKeys) |->
                       NamePart(GetD(instructor, NameKeys[i], JStr(<<>>)))])

_extract_instructor_name(instructor) ==
    IF IsStr(instructor) THEN JStr(Strip(instructor.v))
    ELSE IF IsDict(instructor)
    THEN NameOfDict(instructor, FirstTruthy(instructor, <<"fullName">>, JStr(<<>>)))
    ELSE JStr(<<>>)

\* -------------------------------------------------------- _extract_sections

\* Lines 232-238: the mappings one entry of "sections" contributes.
SectionItems(item) ==
    IF IsList(item) THEN SelectSeq(item.v, IsDict)
    ELSE IF IsDict(item) THEN <<item>>
    ELSE <<>>

\* Lines 229-238 for the value raw_sections of a block's "sections".
SectionsField(raw_sections) ==
    IF ~IsList(raw_sections) THEN <<>>
    ELSE Concat([i \in 1..Len(raw_sections.v) |-> SectionItems(raw_sections.v[i])])
BlockSections(schedule_block) ==
    IF ~IsDict(schedule_block) THEN <<>>
    ELSE SectionsField(GetD(schedule_block, "sections", JList(<<>>)))

\* Lines 215-217: the value under "data" when the payload has one.
Inner(data) ==
    IF IsDict(data) /\ HasKey(data, "data") THEN Get(data, "data") ELSE data
\* Lines 218-223: the schedule list of inner; None stands for `return []`.
ScheduleList(inner) ==
    IF IsDict(inner)
    THEN FirstTruthy(inner, <<"schedule", "studentSchedule">>, JList(<<>>))
    ELSE JNull
\* Lines 225-238: the flattened mappings of the blocks.
BlocksSections(schedule_list) ==
    IF ~IsList(schedule_list) THEN <<>>
    ELSE Concat([i \in 1..Len(schedule_list.v) |-> BlockSections(schedule_list.v[i])])

\* Lines 215-238: every mapping under the blocks' "sections", before the
\* registration filter.
FlattenSections(data) == BlocksSections(ScheduleList(Inner(data)))

\* Line 241: s.get("isRegistered", False) is true.
IsRegistered_FailOpen(s) == Truthy(GetD(s, "isRegistered", JBool(TRUE)))
IsRegistered(s) == Truthy(GetD(s, "isRegistered", JBool(FALSE)))

_extract_sections(data) == SelectSeq(FlattenSections(data), IsRegistered)

\* ----------------------------------------------------------- parse_schedule

\* Lines 256-260: the first top-level value that is a non-empty list whose
\* first element is a mapping.
RECURSIVE FirstListOfDicts(_)
FirstListOfDicts(entries) ==
    IF entries = <<>> THEN <<>>
    ELSE IF /\ IsList(Head(entries).val) /\ Len(Head(entries).val.v) > 0
            /\ IsDict(Head(entries).val.v[1])
    THEN Head(entries).val.v
    ELSE FirstListOfDicts(Tail(entries))

\* Lines 253-260: the fallback taken when _extract_sections returned nothing.
FallbackSections(data) ==
    IF IsList(data) THEN SelectSeq(data.v, IsDict)
    ELSE IF IsDict(data) THEN FirstListOfDicts(data.v)
    ELSE <<>>

\* Lines 250-260 with the list _extract_sections returned.
SectionsFrom(primary, data) ==
    IF primary # <<>> THEN primary ELSE FallbackSections(data)

\* str(x) for the values the payloads put under the text fields.
Str(x) ==
    CASE x.t = "str" -> x.v
      [] x.t = "num" -> NatText(x.v)
      [] x.t = "bool" -> IF x.v THEN <<"T","r","u","e">> ELSE <<"F","a","l","s","e">>
      [] x.t = "null" -> <<"N","o","n","e">>
      [] x.t = "list" /\ x.v = <<>> -> <<"[", "]">>
      [] x.t = "dict" /\ x.v = <<>> -> <<"{", "}">>

\* Lines 276-283 for the raw instructor value: the display names joined
\* with ", ".
JoinNames(names) ==
    IF AnyErr(names) THEN JErr ELSE JStr(Join(<<",", " ">>, NonEmptyTexts(names)))
InstructorNames(raw_instr) ==
    IF IsStr(raw_instr) THEN <<raw_instr>>
    ELSE IF IsList(raw_instr)
    THEN [i \in 1..Len(raw_instr.v) |-> _extract_instructor_name(raw_instr.v[i])]
    ELSE <<_extract_instructor_name(raw_instr)>>
InstructorStr(rec) ==
    JoinNames(InstructorNames(
        FirstTruthy(rec, <<"instructors", "instructor", "instructorName",
                           "instructorNames">>, JList(<<>>))))

\* Lines 264-292: the fields every meeting record of a raw entry shares.
CourseLevel(rec) ==
    [courseName |-> Str(FirstTruthy(rec, <<"eventName", "courseName", "course_name",
                                           "name">>, JStr(<<>>))),
     eventId |-> Str(FirstTruthy(rec, <<"eventId", "event_id">>,
                                 GetD(rec, "id", JStr(<<>>)))),
     eventSubType |-> Str(FirstTruthy(rec, <<"eventSubType", "eventSubtype", "subType">>,
                                      JStr(<<>>))),
     section |-> Str(FirstTruthy(rec, <<"section", "sectionId">>, JStr(<<>>))),
     instructors |-> InstructorStr(rec),
     bldg_top |-> FirstTruthy(rec, <<"buildingName", "bldgName", "building", "orgName">>,
                              JStr(<<>>)),
     room_top |-> FirstTruthy(rec, <<"roomId", "room">>, JStr(<<>>)),
     startDate |-> FirstTruthy(rec, <<"startDate">>, JStr(<<>>)),
     endDate |-> FirstTruthy(rec, <<"endDate">>, JStr(<<>>))]

\* Lines 294-300: the nested list of per-meeting entries, under its alternate keys.
SchedulesOf(rec) ==
    FirstTruthy(rec, <<"schedules", "scheduleTimePeriods", "scheduleList", "schedule",
                       "timePeriods">>, JNull)

\* Lines 321-337 and 349-365: the record appended, from the parsed day and
\* times; a raise in _normalize_day or _parse_time raises.
MeetingRecord(shared, day_desc, day_code, st_raw, st, et_raw, et, bldg, rm) ==
    IF IsErr(day_code) \/ IsErr(st) \/ IsErr(et) THEN JErr
    ELSE [t |-> "course",
          courseName |-> shared.courseName,
          eventId |-> shared.eventId,
          eventSubType |-> shared.eventSubType,
          section |-> shared.section,
          instructors |-> shared.instructors.v,
          day |-> day_desc,
          dayCode |-> day_code,
          startTime |-> st,
          endTime |-> et,
          startTimeStr |-> Strip(st_raw.v),
          endTimeStr |-> Strip(et_raw.v),
          building |-> Str(bldg),
          room |-> Str(rm),
          startDate |-> shared.startDate,
          endDate |-> shared.endDate]

\* Lines 306-319 and 339-347: the day and the times of the mapping src.
MeetingOf(shared, day_desc, st_raw, et_raw, bldg, rm) ==
    MeetingRecord(shared, day_desc, _normalize_day(day_desc),
                  st_raw, _parse_time(st_raw), et_raw, _parse_time(et_raw), bldg, rm)
Meeting(shared, src, bldg, rm) ==
    MeetingOf(shared,
              FirstTruthy(src, <<"dayDesc", "day", "dayName">>, JStr(<<>>)),
              FirstTruthy(src, <<"startTime", "start_time">>, JStr(<<>>)),
              FirstTruthy(src, <<"endTime", "end_time">>, JStr(<<>>)),
              bldg, rm)

\* Lines 303-337: one record per mapping of the nested list, with its own
\* building and room, else those of the raw entry.
NestedMeeting(shared, sched) ==
    Meeting(shared, sched,
            FirstTruthy(sched, <<"bldgName", "buildingName", "building", "orgName">>,
                        shared.bldg_top),
            FirstTruthy(sched, <<"roomId", "room">>, shared.room_top))
NestedMeetings(shared, subs) == [i \in 1..Len(subs) |-> NestedMeeting(shared, subs[i])]

Raised == [raised |-> TRUE, courses |-> <<>>]
Collected(built) ==
    IF AnyErr(built) THEN Raised ELSE [raised |-> FALSE, courses |-> built]

\* Lines 302-365: a nested list gives one record per mapping in it; anything
\* else gives one record from the entry's own day and times.
Expand_SkipsFirst(rec, shared, schedules) ==
    IF Truthy(schedules) /\ IsList(schedules)
    THEN Collected(NestedMeetings(shared,
                                  SubSeq(SelectSeq(schedules.v, IsDict), 2,
                                         Len(SelectSeq(schedules.v, IsDict)))))
    ELSE Collected(<<Meeting(shared, rec, shared.bldg_top, shared.room_top)>>)
Expand(rec, shared, schedules) ==
    IF Truthy(schedules) /\ IsList(schedules)
    THEN Collected(NestedMeetings(shared, SelectSeq(schedules.v, IsDict)))
    ELSE Collected(<<Meeting(shared, rec, shared.bldg_top, shared.room_top)>>)

\* The body of the loop at line 263 for one raw entry: the meeting records it
\* appends, or raised when a step of it raises.
CoursesOf(rec, shared) ==
    IF IsErr(shared.instructors) THEN Raised ELSE Expand(rec, shared, SchedulesOf(rec))
RecordCourses(rec) ==
    IF ~IsDict(rec) THEN Raised ELSE CoursesOf(rec, CourseLevel(rec))

\* The loop at lines 262-367 over a section list.
AllCourses(each) ==
    IF \E i \in 1..Len(each) : each[i].raised THEN Raised
    ELSE [raised |-> FALSE, courses |-> Concat([i \in 1..Len(each) |-> each[i].courses])]
BuildCourses(secs) == AllCourses([i \in 1..Len(secs) |-> RecordCourses(secs[i])])

parse_schedule(data) == BuildCourses(SectionsFrom(_extract_sections(data), data))

\* ------------------------------------------------------------------ dates

\* The proleptic Gregorian calendar of datetime: ordinal 1 is 0001-01-01.
IsLeap(y) == y % 4 = 0 /\ (y % 100 # 0 \/ y % 400 = 0)
DaysInMonth(y, m) ==
    IF m = 2 THEN (IF IsLeap(y) THEN 29 ELSE 28)
    ELSE IF m \in {4, 6, 9, 11} THEN 30 ELSE 31
DaysBeforeYear(y) ==
    (y - 1) * 365 + ((y - 1) \div 4) - ((y - 1) \div 100) + ((y - 1) \div 400)
RECURSIVE DaysBeforeMonth(_, _)
DaysBeforeMonth(y, m) ==
    IF m = 1 THEN 0 ELSE DaysBeforeMonth(y, m - 1) + DaysInMonth(y, m - 1)
ToOrdinal(y, m, d) == DaysBeforeYear(y) + DaysBeforeMonth(y, m) + d

\* datetime.weekday(): Monday = 0 ... Sunday = 6.
Weekday(n) == (n + 6) % 7

\* The year of an ordinal, searched upward from a year that is not after it.
RECURSIVE YearFrom(_, _)
YearFrom(n, y) == IF n <= DaysBeforeYear(y + 1) THEN y ELSE YearFrom(n, y + 1)
\* The month that holds day r of year y.
RECURSIVE MonthFrom(_, _, _)
MonthFrom(y, r, m) ==
    IF r <= DaysBeforeMonth(y, m) + DaysInMonth(y, m) THEN m ELSE MonthFrom(y, r, m + 1)
\* The (year, month, day) of an ordinal.
DateInMonth(y, r, m) == [year |-> y, month |-> m, day |-> r - DaysBeforeMonth(y, m)]
DateInYear(y, r) == DateInMonth(y, r, MonthFrom(y, r, 1))
DateInYearOf(n, y) == DateInYear(y, n - DaysBeforeYear(y))
FromOrdinal(n) == DateInYearOf(n, YearFrom(n, ((n - 1) \div 366) + 1))

\* strftime("%Y%m%d")
YmdOf(d) == ZeroPad(NatText(d.year), 4) \o Pad2(d.month) \o Pad2(d.day)
YmdText(n) == YmdOf(FromOrdinal(n))

\* The fields of s between the separators sep.
RECURSIVE Split(_, _)
Split(s, sep) ==
    IF \E i \in 1..Len(s) : s[i] = sep
    THEN LET i == CHOOSE i \in 1..Len(s) : s[i] = sep /\ \A j \in 1..(i - 1) : s[j] # sep
         IN  <<SubSeq(s, 1, i - 1)>> \o Split(SubSeq(s, i + 1, Len(s)), sep)
    ELSE <<s>>

AllDigits(f) == \A i \in 1..Len(f) : IsDigit(f[i])

\* The strptime directives: %m is 1[0-2]|0[1-9]|[1-9], %d is
\* 3[0-1]|[1-2]\d|0[1-9]|[1-9]| [1-9], %Y is \d\d\d\d.
MonthField(f) ==
    /\ Len(f) \in {1, 2} /\ AllDigits(f)
    /\ ToInt(f) \in 1..12
DayField(f) ==
    \/ Len(f) \in {1, 2} /\ AllDigits(f) /\ ToInt(f) \in 1..31
    \/ Len(f) = 2 /\ f[1] = " " /\ IsDigit(f[2]) /\ f[2] # "0"
YearField(f) == Len(f) = 4 /\ AllDigits(f)
DayValue(f) == IF f[1] = " " THEN ToInt(Tail(f)) ELSE ToInt(f)

\* The date of the year, month and day fields, None when datetime rejects it.
DateOfFields(yf, mf, df) ==
    IF /\ YearField(yf) /\ MonthField(mf) /\ DayField(df)
       /\ ToInt(yf) >= 1
       /\ DayValue(df) <= DaysInMonth(ToInt(yf), ToInt(mf))
    THEN PyDate(ToOrdinal(ToInt(yf), ToInt(mf), DayValue(df)))
    ELSE JNull
\* datetime.strptime for a format of three fields: fmt gives the separator
\* and the place of the year, the month and the day. None when it raises
\* ValueError.
StrptimeFields(f, fmt) ==
    IF Len(f) = 3 THEN DateOfFields(f[fmt.yi], f[fmt.mi], f[fmt.di]) ELSE JNull
Strptime(s, fmt) == StrptimeFields(Split(s, fmt.sep), fmt)

\* Line 394: %m/%d/%Y, %Y-%m-%d, %d/%m/%Y, %Y/%m/%d, in the order tried.
\* Lines 394-399: the first format that parses.
RECURSIVE TryFormats(_, _)
TryFormats(s, fmts) ==
    IF fmts = <<>> THEN JNull
    ELSE IF ~IsNone(Strptime(s, Head(fmts))) THEN Strptime(s, Head(fmts))
    ELSE TryFormats(s, Tail(fmts))
DateOfText(s) ==
    TryFormats(s, << [sep |-> "/", yi |-> 3, mi |-> 1, di |-> 2],
                     [sep |-> "-", yi |-> 1, mi |-> 2, di |-> 3],
                     [sep |-> "/", yi |-> 3, mi |-> 2, di |-> 1],
                     [sep |-> "/", yi |-> 1, mi |-> 2, di |-> 3] >>)

\* _parse_date_str: None for a false value; a true value that is no str has
\* no strip() and raises (AttributeError is not the ValueError it catches).
_parse_date_str(date_str) ==
    IF ~Truthy(date_str) THEN JNull
    ELSE IF ~IsStr(date_str) THEN JErr
    ELSE DateOfText(Strip(date_str.v))

\* -------------------------------------------------- _derive_semester_bounds

\* Lines 412-418: the parsed dates of a field over the records, None and all.
IsDate(x) == x.t = "date"
ParsedStarts(cs) == [i \in 1..Len(cs) |-> _parse_date_str(cs[i].startDate)]
ParsedEnds(cs) == [i \in 1..Len(cs) |-> _parse_date_str(cs[i].endDate)]
DatesIn(parsed) == {parsed[i].v : i \in {j \in 1..Len(parsed) : IsDate(parsed[j])}}

\* min() and max()
Earliest(dates) == CHOOSE x \in dates : \A y \in dates : x <= y
Latest(dates) == CHOOSE x \in dates : \A y \in dates : x >= y

\* Line 426 and line 431: the fallbacks.
FallbackStart == ToOrdinal(2026, 2, 8)
FallbackUntil == <<"2","0","2","6","0","5","2","1">>

\* Lines 423-424: roll a date back to the Sunday of its week.
SundayOnOrBefore_Monday(earliest) == earliest - Weekday(earliest)
SundayOnOrBefore(earliest) == earliest - ((Weekday(earliest) + 1) % 7)

\* Lines 420-426 for the set of parsed start dates.
StartOf(start_dates) ==
    IF start_dates # {} THEN SundayOnOrBefore(Earliest(start_dates)) ELSE FallbackStart

\* Lines 428-431 for the set of parsed end dates.
UntilOf_Earliest(end_dates) ==
    IF end_dates # {} THEN YmdText(Earliest(end_dates)) ELSE FallbackUntil
UntilOf(end_dates) ==
    IF end_dates # {} THEN YmdText(Latest(end_dates)) ELSE FallbackUntil

\* Line 433; the roll-back raises OverflowError below 0001-01-01.
BoundsRaised == [raised |-> TRUE, semester_start |-> 0, until_str |-> <<>>]
BoundsOf(semester_start, until_str) ==
    IF semester_start < 1 THEN BoundsRaised
    ELSE [raised |-> FALSE, semester_start |-> semester_start, until_str |-> until_str]
BoundsFrom(starts, ends) ==
    IF AnyErr(starts) \/ AnyErr(ends) THEN BoundsRaised
    ELSE BoundsOf(StartOf(DatesIn(starts)), UntilOf(DatesIn(ends)))

\* _derive_semester_bounds: raised when a date field raises in _parse_date_str.
_derive_semester_bounds(cs) == BoundsFrom(ParsedStarts(cs), ParsedEnds(cs))

\* ------------------------------------------------------------ generate_ics

\* _format_ics_time
_format_ics_time(t) ==
    IF IsNone(t) THEN <<"0","0","0","0","0","0">>
    ELSE Pad2(t.v[1]) \o Pad2(t.v[2]) \o <<"0","0">>

\* text.replace(old, new) for a one-character old.
RECURSIVE Replace(_, _, _)
Replace(text, old, new) ==
    IF text = <<>> THEN <<>>
    ELSE (IF Head(text) = old THEN new ELSE <<Head(text)>>)
         \o Replace(Tail(text), old, new)

\* _ics_escape: backslash first, then comma, semicolon and newline.
_ics_escape_BackslashLast(text) ==
    Replace(Replace(Replace(Replace(text, ",", <<"\\", ",">>),
                            ";", <<"\\", ";">>),
                    "\n", <<"\\", "n">>),
            "\\", <<"\\", "\\">>)
_ics_escape(text) ==
    Replace(Replace(Replace(Replace(text, "\\", <<"\\", "\\">>),
                            ",", <<"\\", ",">>),
                    ";", <<"\\", ";">>),
            "\n", <<"\\", "n">>)

\* Line 457: the record is skipped.
Skipped_MidnightFalse(course) ==
    \/ ~Truthy(course.dayCode)
    \/ ~Truthy(course.startTime)
    \/ course.startTime.v[1] = 0
Skipped(course) == ~Truthy(course.dayCode) \/ ~Truthy(course.startTime)

\* Lines 462-464: the first date on or after semester_start on the weekday of
\* day_code (a code outside the table keeps the weekday of semester_start).
TargetWeekday(day_code, semester_start) ==
    Lookup(BYDAY_TO_WEEKDAY, day_code, Weekday(semester_start))
FirstDate_NoWrap(semester_start, day_code) ==
    semester_start + TargetWeekday(day_code, semester_start)
FirstDate(semester_start, day_code) ==
    semester_start
      + ((TargetWeekday(day_code, semester_start) - Weekday(semester_start)) % 7)

\* Lines 467-471: the record's own end date ed, else the default.
UntilFor(ed, default_until) == IF IsDate(ed) THEN YmdText(ed.v) ELSE default_until
Until(course, default_until) ==
    UntilFor(_parse_date_str(course.endDate), default_until)

\* Lines 475-487: the texts of the summary, description, location and times.
Summary(course) ==
    IF course.eventSubType # <<>>
    THEN course.courseName \o <<" ","-"," ">> \o course.eventSubType
    ELSE course.courseName
Description(course) ==
    IF course.instructors # <<>>
    THEN <<"I","n","s","t","r","u","c","t","o","r","(","s",")",":"," ">>
         \o _ics_escape(course.instructors)
    ELSE <<>>
Location(course) == Strip(course.building \o <<" ">> \o course.room)
DtStart(course, dt_date_str) ==
    dt_date_str \o <<"T">> \o _format_ics_time(course.startTime)
DtEnd(course, dt_date_str) ==
    IF Truthy(course.endTime)
    THEN dt_date_str \o <<"T">> \o _format_ics_time(course.endTime)
    ELSE DtStart(course, dt_date_str)

\* Lines 496-499: a line that is appended only when its text is not empty.
OptionalLine(prefix, text) == IF text # <<>> THEN <<prefix \o text>> ELSE <<>>

\* Lines 489-500: the lines of one VEVENT block.
EventLines(course, dt_date_str, until, dtstamp, uid) ==
    << <<"B","E","G","I","N",":","V","E","V","E","N","T">>,
       <<"U","I","D",":">> \o uid \o <<"@","n","u","s","c","h","e","d">>,
       <<"D","T","S","T","A","M","P",":">> \o dtstamp,
       <<"D","T","S","T","A","R","T",":">> \o DtStart(course, dt_date_str),
       <<"D","T","E","N","D",":">> \o DtEnd(course, dt_date_str),
       <<"R","R","U","L","E",":","F","R","E","Q","=","W","E","E","K","L","Y",
         ";","B","Y","D","A","Y","=">> \o course.dayCode.v
          \o <<";","U","N","T","I","L","=">> \o until
          \o <<"T","0","0","0","0","0","0","Z">>,
       <<"S","U","M","M","A","R","Y",":">> \o Summary(course) >>
    \o OptionalLine(<<"D","E","S","C","R","I","P","T","I","O","N",":">>,
                    Description(course))
    \o OptionalLine(<<"L","O","C","A","T","I","O","N",":">>, Location(course))
    \o << <<"E","N","D",":","V","E","V","E","N","T">> >>

\* Lines 453-500: what one record appends to `lines`.
VEvent_StampInLoop(course, semester_start, default_until, dtstamp, uid) ==
    EventLines(course, YmdText(FirstDate(semester_start, course.dayCode.v)),
               Until(course, default_until),
               IF uid[1] = "1" THEN dtstamp ELSE SubSeq(dtstamp, 1, Len(dtstamp) - 2) \o <<"9", "Z">>,
               uid)
VEvent(course, semester_start, default_until, dtstamp, uid) ==
    EventLines(course, YmdText(FirstDate(semester_start, course.dayCode.v)),
               Until(course, default_until), dtstamp, uid)
CourseLines(course, b, dtstamp, uid) ==
    IF Skipped(course) THEN <<>>
    ELSE VEvent(course, b.semester_start, b.until_str, dtstamp, uid)

\* Lines 440-448.
IcsHeader == <<
    <<"B","E","G","I","N",":","V","C","A","L","E","N","D","A","R">>,
    <<"V","E","R","S","I","O","N",":","2",".","0">>,
    <<"P","R","O","D","I","D",":","-","/","/","N","U","S","c","h","e","d","/","/",
      "S","c","h","e","d","u","l","e"," ","E","x","p","o","r","t","/","/","E","N">>,
    <<"C","A","L","S","C","A","L","E",":","G","R","E","G","O","R","I","A","N">>,
    <<"M","E","T","H","O","D",":","P","U","B","L","I","S","H">>,
    <<"X","-","W","R","-","C","A","L","N","A","M","E",":","N","U"," ",
      "S","c","h","e","d","u","l","e">>,
    <<"X","-","W","R","-","T","I","M","E","Z","O","N","E",":","A","f","r","i","c","a",
      "/","C","a","i","r","o">> >>

\* Lines 440-502: the list `lines` of generate_ics for the records cs, the
\* bounds b of line 438, the DTSTAMP text and the UID text of each record.
IcsLines(cs, b, dtstamp, uids) ==
    IF b.raised THEN <<>>
    ELSE IcsHeader
         \o Concat([i \in 1..Len(cs) |-> CourseLines(cs[i], b, dtstamp, uids[i])])
         \o << <<"E","N","D",":","V","C","A","L","E","N","D","A","R">> >>

\* Line 505: "\r\n".join(lines) + "\r\n"
FileText(ls) == Join(<<"\r", "\n">>, ls) \o <<"\r", "\n">>

\* ------------------------------------------------------------- payloads

\* Raw entries the payloads are built from.
SecAlgorithms ==
    JDict(<<
    KV("eventName", JStr(<<"A","l","g","o","r","i","t","h","m","s">>)),
    KV("eventSubType", JStr(<<"L","E","C">>)),
    KV("section", JStr(<<"1">>)),
    KV("instructors", JList(<<
        JDict(<<
            KV("firstName", JStr(<<"A">>)),
            KV("lastName", JStr(<<"S","m","i","t","h">>)) >>) >>)),
    KV("isRegistered", JBool(TRUE)),
    KV("schedules", JList(<<
        JDict(<<
            KV("dayDesc", JStr(<<"M","o","n","d","a","y">>)),
            KV("startTime", JStr(<<"1","0",":","0","0"," ","A","M">>)),
            KV("endTime", JStr(<<"1","1",":","3","0"," ","A","M">>)),
            KV("roomId", JStr(<<"2","0","1">>)),
            KV("bldgName", JStr(<<"E","n","g">>)) >>) >>)),
    KV("startDate", JStr(<<"2","/","8","/","2","0","2","6">>)),
    KV("endDate", JStr(<<"5","/","2","1","/","2","0","2","6">>)) >>)

SecNoFlag ==
    JDict(<<
    KV("eventName", JStr(<<"N","e","t","w","o","r","k","s">>)),
    KV("eventId", JNum(7)),
    KV("instructor", JStr(<<"B"," ","J","o","n","e","s",","," ","P","h","D">>)),
    KV("day", JStr(<<"t","u","e">>)),
    KV("startTime", JStr(<<"1","4",":","3","0">>)),
    KV("endTime", JStr(<<"1","5",":","4","5">>)),
    KV("buildingName", JStr(<<"S","c","i">>)),
    KV("room", JStr(<<"1","2">>)),
    KV("startDate", JStr(<<"3","/","1","0","/","2","0","2","6">>)),
    KV("endDate", JStr(<<>>)) >>)

SecNetworks ==
    JDict(<<
    KV("eventName", JStr(<<"N","e","t","w","o","r","k","s">>)),
    KV("eventId", JNum(7)),
    KV("isRegistered", JBool(TRUE)),
    KV("instructor", JStr(<<"B"," ","J","o","n","e","s",","," ","P","h","D">>)),
    KV("day", JStr(<<"t","u","e">>)),
    KV("startTime", JStr(<<"1","4",":","3","0">>)),
    KV("endTime", JStr(<<"1","5",":","4","5">>)),
    KV("buildingName", JStr(<<"S","c","i">>)),
    KV("room", JStr(<<"1","2">>)),
    KV("startDate", JStr(<<"3","/","1","0","/","2","0","2","6">>)),
    KV("endDate", JStr(<<>>)) >>)

SecUnregistered ==
    JDict(<<
    KV("eventName", JStr(<<"C","h","e","m","i","s","t","r","y">>)),
    KV("isRegistered", JBool(FALSE)),
    KV("schedules", JList(<<
        JDict(<<
            KV("dayDesc", JStr(<<"M","o","n","d","a","y">>)),
            KV("startTime", JStr(<<"8",":","0","0"," ","A","M">>)),
            KV("endTime", JStr(<<"9",":","0","0"," ","A","M">>)) >>) >>)),
    KV("startDate", JStr(<<"2","/","8","/","2","0","2","6">>)),
    KV("endDate", JStr(<<"5","/","2","1","/","2","0","2","6">>)) >>)

SecDatabases ==
    JDict(<<
    KV("courseName", JStr(<<"D","a","t","a","b","a","s","e","s">>)),
    KV("subType", JStr(<<"L","A","B">>)),
    KV("isRegistered", JBool(TRUE)),
    KV("instructors", JList(<<
        JStr(<<"C",";"," ","L","e","e">>),
        JDict(<<
            KV("fullName", JStr(<<" ","D"," ","K","i","m"," ">>)) >>) >>)),
    KV("scheduleTimePeriods", JList(<<
        JDict(<<
            KV("dayName", JStr(<<" ","W","e","d","n","e","s","d","a","y"," ">>)),
            KV("start_time", JStr(<<"1","2",":","0","0"," ","A","M">>)),
            KV("room", JStr(<<"B","2">>)) >>) >>)),
    KV("startDate", JStr(<<"2","/","1","5","/","2","0","2","6">>)),
    KV("endDate", JStr(<<"2","0","2","6","-","0","6","-","0","1">>)) >>)

SecPhysics ==
    JDict(<<
    KV("eventName", JStr(<<"P","h","y","s","i","c","s">>)),
    KV("isRegistered", JBool(TRUE)),
    KV("schedules", JList(<<
        JDict(<<
            KV("dayDesc", JStr(<<"N","/","A">>)),
            KV("startTime", JStr(<<"9",":","0","0"," ","A","M">>)),
            KV("endTime", JStr(<<"9",":","5","0"," ","A","M">>)) >>) >>)),
    KV("startDate", JStr(<<"2","/","1","/","2","0","2","6">>)),
    KV("endDate", JStr(<<"5","/","2","8","/","2","0","2","6">>)) >>)

SecLab ==
    JDict(<<
    KV("name", JStr(<<"L","a","b">>)),
    KV("isRegistered", JNum(1)),
    KV("day", JStr(<<"T","h","u">>)),
    KV("startTime", JStr(<<>>)),
    KV("startDate", JStr(<<"2","5","/","2","/","2","0","2","6">>)),
    KV("endDate", JStr(<<"n","/","a">>)) >>)

SecFourDays ==
    JDict(<<
    KV("eventName", JStr(<<"C","a","l","c","u","l","u","s">>)),
    KV("eventSubType", JStr(<<"L","E","C">>)),
    KV("section", JStr(<<"2">>)),
    KV("isRegistered", JBool(TRUE)),
    KV("instructors", JList(<<
        JDict(<<
            KV("first", JStr(<<"E">>)),
            KV("last", JStr(<<"N","o","o","r">>)) >>) >>)),
    KV("bldgName", JStr(<<"M","a","i","n">>)),
    KV("roomId", JStr(<<"5">>)),
    KV("schedules", JList(<<
        JDict(<<
            KV("dayDesc", JStr(<<"F","R","I","D","A","Y">>)),
            KV("startTime", JStr(<<"1",":","1","5"," ","p","m">>)),
            KV("endTime", JStr(<<"2",":","0","5"," ","p","m">>)) >>),
        JStr(<<"s","k","i","p">>),
        JDict(<<
            KV("dayDesc", JStr(<<"s","a">>)),
            KV("startTime", JStr(<<"0","8",":","3","0">>)),
            KV("endTime", JStr(<<"0","9",":","2","0">>)),
            KV("bldgName", JStr(<<"A","n","n","e","x">>)) >>),
        JDict(<<
            KV("dayDesc", JStr(<<"S","u","n">>)),
            KV("startTime", JStr(<<"1","2",":","3","0"," ","P","M">>)),
            KV("endTime", JStr(<<"1",":","2","0"," ","P","M">>)),
            KV("roomId", JStr(<<"9">>)) >>),
        JDict(<<
            KV("dayDesc", JStr(<<"t","h">>)),
            KV("startTime", JStr(<<"1","6",":","0","0">>)),
            KV("endTime", JStr(<<"1","7",":","1","5">>)) >>) >>)),
    KV("startDate", JStr(<<"2","0","2","6","/","0","3","/","0","7">>)),
    KV("endDate", JStr(<<>>)) >>)

SecNumericTime ==
    JDict(<<
    KV("eventName", JStr(<<"S","t","a","t","i","s","t","i","c","s">>)),
    KV("isRegistered", JBool(TRUE)),
    KV("schedules", JList(<<
        JDict(<<
            KV("dayDesc", JStr(<<"M","o","n","d","a","y">>)),
            KV("startTime", JNum(10)),
            KV("endTime", JNum(11)) >>) >>)) >>)

SecNumericName ==
    JDict(<<
    KV("eventName", JStr(<<"H","i","s","t","o","r","y">>)),
    KV("isRegistered", JBool(TRUE)),
    KV("instructors", JList(<<
        JDict(<<
            KV("firstName", JNum(5)) >>) >>)),
    KV("day", JStr(<<"M","o","n","d","a","y">>)),
    KV("startTime", JStr(<<"1","0",":","0","0">>)) >>)

NotAMapping ==
    JStr(<<"x">>)

SectionPool == <<SecAlgorithms, SecNoFlag, SecUnregistered, SecDatabases, SecPhysics,
                 SecLab, SecFourDays, SecNumericTime, SecNumericName, NotAMapping>>

\* The response shapes: the documented one (four baskets, the last one filled),
\* the same without the "data" wrapper, sections given as direct entries under
\* "studentSchedule", a top-level list, and a list under some top-level key.
Wrapped(items) ==
    JDict(<<KV("data", JDict(<<KV("schedule", JList(<<
        JDict(<<KV("sections", JList(<<JList(<<>>), JList(<<>>), JList(<<>>),
                                       JList(items)>>))>>) >>))>>))>>)
Bare(items) ==
    JDict(<<KV("schedule", JList(<<
        JDict(<<KV("sections", JList(<<JList(items)>>))>>) >>))>>)
Direct(items) ==
    JDict(<<KV("code", JNum(200)),
            KV("data", JDict(<<KV("studentSchedule", JList(<<
                JStr(<<"n","o","t","e">>),
                JDict(<<KV("sections", JList(items))>>) >>))>>))>>)
TopList(items) == JList(items)
TopValue(items) ==
    JDict(<<KV("code", JNum(200)), KV("message", JStr(<<"o","k">>)),
            KV("classes", JList(items))>>)

Shapes(items) ==
    {Wrapped(items), Bare(items), Direct(items), TopList(items), TopValue(items)}

\* Payloads neither path recognises.
OddPayloads == {
    JNull, JNum(5), JBool(TRUE), JStr(<<"o","o","p","s">>), JList(<<>>), JDict(<<>>),
    JList(<<JNum(1), JStr(<<"a">>)>>),
    JDict(<<KV("data", JNum(7))>>),
    JDict(<<KV("data", JDict(<<KV("schedule", JStr(<<"n","o","n","e">>))>>))>>),
    JDict(<<KV("data", JDict(<<KV("schedule", JList(<<
        JDict(<<KV("sections", JNum(3))>>) >>))>>))>>) }

ItemLists == UNION {[1..n -> 1..Len(SectionPool)] : n \in 0..MaxSections}

\* The meeting records the table is filled from: those parse_schedule builds
\* from registered entries of the pool; a table holds up to MaxRecords of
\* them, each at most once, in any order.
RecordPool ==
    parse_schedule(JList(<<SecAlgorithms, SecNetworks, SecDatabases, SecPhysics,
                           SecLab>>)).courses
RecordLists ==
    UNION {{f \in [1..n -> 1..Len(RecordPool)] :
               \A i, j \in 1..n : f[i] = f[j] => i = j} : n \in 0..MaxRecords}

\* The clock readings and the uuid4 streams of a run.
Clocks == { <<"2","0","2","6","1","1","0","4","T","0","9","3","0","0","0","Z">>,
            <<"2","0","2","6","1","1","0","4","T","0","9","3","0","0","1","Z">> }
UidPool == << <<"1","a","2","b","3","c","4","d","-","5","e","6","f","7","a","8","b">>,
              <<"9","c","0","d","1","e","2","f","-","3","a","4","b","5","c","6","d">> >>
Uids(seed, n) == [i \in 1..n |-> UidPool[((seed + i) % Len(UidPool)) + 1]]

\* ------------------------------------------- the parts of a run not in use

NothingFetched ==
    /\ payload = JNull /\ extracted = <<>> /\ sections = <<>> /\ result = [raised |-> FALSE, courses |-> <<>>]
NothingExported ==
    /\ exported = <<>> /\ clock = <<>> /\ lines = <<>> /\ file = <<>>
    /\ bounds = [raised |-> FALSE, semester_start |-> 0, until_str |-> <<>>]
NoTimeCall == timeArg = [h |-> 0, m |-> 0, marker |-> <<>>, text |-> <<>>] /\ timeRet = JNull
\* The window right after construction, when the run does not go through it.
NoApp ==
    /\ tree = <<>> /\ nextIid = 1 /\ fetch_btn = "normal" /\ gen_btn = "disabled"
    /\ modal = <<>> /\ workers = 0 /\ pending = <<>> /\ chosen = <<>> /\ fetches = 0

\* ------------------------ specification: parse_schedule, then generate_ics

InitParse ==
    /\ pc = "fetched"
    /\ \/ \E choice \in ItemLists :
              payload \in Shapes([i \in 1..Len(choice) |-> SectionPool[choice[i]]])
       \/ payload \in OddPayloads
    /\ extracted = <<>> /\ sections = <<>> /\ result = [raised |-> FALSE, courses |-> <<>>]
    /\ courses = <<>> /\ selected = <<>>
    /\ NothingExported /\ NoTimeCall
    /\ NoApp

\* _fetch_worker, line 713: courses = parse_schedule(data).
ParseSchedule ==
    /\ pc = "fetched"
    /\ extracted' = _extract_sections(payload)
    /\ sections' = SectionsFrom(extracted', payload)
    /\ result' = BuildCourses(sections')
    /\ pc' = IF result'.raised THEN "raised" ELSE "parsed"
    /\ UNCHANGED <<payload, courses, selected, exported, bounds, clock, lines, file,
                   timeArg, timeRet, app>>

\* generate_ics(cs): the bounds, the lines and the file; a raise leaves the
\* file as it was.
GenerateIcs(cs) ==
    \E dtstamp \in Clocks, seed \in 1..Len(UidPool) :
        /\ exported' = cs
        /\ bounds' = _derive_semester_bounds(exported')
        /\ clock' = dtstamp
        /\ lines' = IcsLines(exported', bounds', clock', Uids(seed, Len(exported')))
        /\ file' = IF bounds'.raised THEN file ELSE FileText(lines')
        /\ pc' = IF bounds'.raised THEN "failed" ELSE "exported"

\* The records parse_schedule returned, all exported.
ExportParsed ==
    /\ pc = "parsed"
    /\ GenerateIcs(result.courses)
    /\ UNCHANGED <<payload, extracted, sections, result, courses, selected,
                   timeArg, timeRet, app>>

NextParse == ParseSchedule \/ ExportParsed

SpecParse == InitParse /\ [][NextParse]_vars

\* --------------------- specification: the table, the selection, the export

InitExport ==
    /\ pc = "table"
    /\ \E choice \in RecordLists :
           courses = [i \in 1..Len(choice) |-> RecordPool[choice[i]]]
    /\ selected = [i \in 1..Len(courses) |-> TRUE]
    /\ NothingFetched /\ NothingExported /\ NoTimeCall
    /\ NoApp

\* _on_tree_click on the check column of row i.
OnTreeClick(i) ==
    /\ pc = "table"
    /\ i \in 1..Len(courses)
    /\ selected' = [selected EXCEPT ![i] = ~selected[i]]
    /\ UNCHANGED <<pc, payload, extracted, sections, result, courses, exported,
                   bounds, clock, lines, file, timeArg, timeRet, app>>

\* _select_all and _deselect_all.
SelectAll ==
    /\ pc = "table"
    /\ selected' = [i \in 1..Len(courses) |-> TRUE]
    /\ UNCHANGED <<pc, payload, extracted, sections, result, courses, exported,
                   bounds, clock, lines, file, timeArg, timeRet, app>>
DeselectAll ==
    /\ pc = "table"
    /\ selected' = [i \in 1..Len(courses) |-> FALSE]
    /\ UNCHANGED <<pc, payload, extracted, sections, result, courses, exported,
                   bounds, clock, lines, file, timeArg, timeRet, app>>

\* Lines 826-830: the records of the rows whose flag is set, in table order.
RECURSIVE SelectedCourses(_, _)
SelectedCourses(cs, sel) ==
    IF cs = <<>> THEN <<>>
    ELSE (IF Head(sel) THEN <<Head(cs)>> ELSE <<>>)
         \o SelectedCourses(Tail(cs), Tail(sel))

\* _on_generate with the confirmation accepted: nothing happens when no row
\* is selected. A run is followed up to its first export.
OnGenerate ==
    /\ pc = "table"
    /\ SelectedCourses(courses, selected) # <<>>
    /\ GenerateIcs(SelectedCourses(courses, selected))
    /\ UNCHANGED <<payload, extracted, sections, result, courses, selected,
                   timeArg, timeRet, app>>

NextExport ==
    \/ \E i \in 1..MaxRecords : OnTreeClick(i)
    \/ SelectAll
    \/ DeselectAll
    \/ OnGenerate

SpecExport == InitExport /\ [][NextExport]_vars

\* ----------------------------------------------- specification: _parse_time

\* The AM/PM marker in every letter case.
AmPmMarkers_AnyCase == {<<a, b>> : a \in {"A", "a", "P", "p"}, b \in {"M", "m"}}

\* A 12-hour text: hour (one digit, or two with pad), ':', two-digit minute,
\* blanks, marker.
ClockText(h, m, pad, ws, marker) ==
    (IF pad THEN Pad2(h) ELSE NatText(h)) \o <<":">> \o Pad2(m) \o ws \o marker

Blanks == {[i \in 1..n |-> " "] : n \in 0..MaxWs} \cup {<<"\t">>}

InitTime ==
    /\ pc = "time"
    /\ \E h \in 1..12, m \in 0..59, pad \in BOOLEAN, ws \in Blanks,
          marker \in AmPmMarkers_AnyCase :
          timeArg = [h |-> h, m |-> m, marker |-> marker,
                     text |-> ClockText(h, m, pad, ws, marker)]
    /\ timeRet = JNull
    /\ NothingFetched /\ NothingExported
    /\ courses = <<>> /\ selected = <<>>
    /\ NoApp

ParseTime ==
    /\ pc = "time"
    /\ timeRet' = _parse_time(JStr(timeArg.text))
    /\ pc' = "timed"
    /\ UNCHANGED <<payload, extracted, sections, result, courses, selected,
                   exported, bounds, clock, lines, file, timeArg, app>>

NextTime == ParseTime

SpecTime == InitTime /\ [][NextTime]_vars

\* ------- specification: the day, time and nested-meeting fields of an entry

\* Longest nested meetings list of a raw entry.
MaxMeetings == 2

\* Day texts: every key of the table in lower case, in upper case and
\* capitalised, bare and between blanks, and texts that name no day.
DayKeys == {DAY_TO_BYDAY[i].k : i \in 1..Len(DAY_TO_BYDAY)}
Cased(s) == {s, Upper(s), <<UpperChar(Head(s))>> \o Tail(s)}
OtherDayTexts == {<<"N","/","A">>, <<"t","u","e","s">>, <<"t","h","u","r">>, <<"t","h","u","r","s">>, <<"w","e","d","s">>, <<"m">>, <<"t">>, <<"m","o","n","d">>, <<"m","o","n","d","a","y","s">>,
                  <<"m","o","n"," ","d","a","y">>, <<"d","a","y">>, <<"T","B","A">>, <<"1">>, <<" ">>}
DayTexts ==
    {pre \o s \o post : pre \in Blanks, post \in {<<>>, <<" ">>, <<"\n">>},
                        s \in UNION {Cased(k) : k \in DayKeys}}
      \cup OtherDayTexts

\* Time texts: in range, out of range, and with text after the time.
TimeTexts == {<<"2","5",":","9","9">>, <<"1","3",":","3","0"," ","P","M">>, <<"1","0",":","0","0"," ","A","M","x","y","z">>, <<"9",":","0","5">>, <<"0",":","0","0">>, <<"2","3",":","5","9">>, <<"2","4",":","0","0">>,
              <<"7",":","6","0">>, <<"1","2",":","7","5"," ","a","m">>, <<"0","0",":","3","0"," ","P","M">>, <<"n","o","o","n">>, <<"1","2","3",":","4","5">>, <<"1","2",":","0","0"," ","A","M">>, <<"8",":","5">>}
TimePairs ==
    {<<st, <<"1","1",":","0","0">>>> : st \in TimeTexts} \cup {<<<<"1","0",":","0","0">>, et>> : et \in TimeTexts}

\* A nested meeting entry, and raw entries that carry the meeting fields in a
\* nested list (under the key nestedKey) or at the top level.
MeetingEntry(day, st, et) ==
    JDict(<<KV("dayDesc", JStr(day)), KV("startTime", JStr(st)), KV("endTime", JStr(et))>>)
NestedSection(nestedKey, nested) ==
    JDict(<<
    KV("eventName", JStr(<<"L","o","g","i","c">>)),
    KV("eventId", JStr(<<"L","1">>)),
    KV("eventSubType", JStr(<<"L","E","C">>)),
    KV("section", JStr(<<"3">>)),
    KV("instructors", JStr(<<"F"," ","H","a","l","l">>)),
    KV("isRegistered", JBool(TRUE)),
    KV("bldgName", JStr(<<"H","a","l","l">>)),
    KV(nestedKey, nested),
    KV("startDate", JStr(<<"2","/","8","/","2","0","2","6">>)),
    KV("endDate", JStr(<<"5","/","2","1","/","2","0","2","6">>)) >>)
FlatSection(day, st, et) ==
    JDict(<<
    KV("eventName", JStr(<<"L","o","g","i","c">>)),
    KV("isRegistered", JBool(TRUE)),
    KV("day", JStr(day)),
    KV("startTime", JStr(st)),
    KV("endTime", JStr(et)) >>)

\* The keys line 295-299 reads the nested list from, the sub-entries a list is
\* drawn from, and the values under such a key.
NestedKeys == {"schedules", "scheduleTimePeriods", "scheduleList", "schedule", "timePeriods"}
MeetingPool == <<
    MeetingEntry(<<"M","o","n","d","a","y">>, <<"1","0",":","0","0"," ","A","M">>, <<"1","1",":","0","0"," ","A","M">>),
    JDict(<<KV("day", JStr(<<"w","e","d">>)), KV("start_time", JStr(<<"1","4",":","0","0">>)),
            KV("bldgName", JStr(<<"A","n","n","e","x">>)), KV("room", JStr(<<"7">>))>>),
    JStr(<<"T","B","A">>) >>
NestedLists == UNION {[1..n -> 1..Len(MeetingPool)] : n \in 0..MaxMeetings}
NestedValues ==
    {JList([i \in 1..Len(choice) |-> MeetingPool[choice[i]]]) : choice \in NestedLists}
      \cup {JStr(<<"T","B","A">>), MeetingPool[1], JNull}

FieldPayloads ==
    {Wrapped(<<NestedSection("schedules", JList(<<MeetingEntry(day, <<"1","0",":","0","0">>, <<"1","1",":","0","0">>)>>))>>) :
        day \in DayTexts}
      \cup {TopList(<<FlatSection(day, <<"1","0",":","0","0">>, <<"1","1",":","0","0">>)>>) : day \in OtherDayTexts \cup DayKeys}
      \cup {Wrapped(<<NestedSection("schedules",
                                    JList(<<MeetingEntry(<<"M","o","n","d","a","y">>, tp[1], tp[2])>>))>>) :
               tp \in TimePairs}
      \cup {TopList(<<FlatSection(<<"M","o","n","d","a","y">>, tp[1], tp[2])>>) : tp \in TimePairs}
      \cup {Wrapped(<<NestedSection(nestedKey, nested), SecNetworks>>) :
               nestedKey \in NestedKeys, nested \in NestedValues}
      \cup {Bare(<<SecNetworks, NestedSection("schedules", nested)>>) : nested \in NestedValues}

InitFields ==
    /\ pc = "fetched"
    /\ payload \in FieldPayloads
    /\ extracted = <<>> /\ sections = <<>> /\ result = [raised |-> FALSE, courses |-> <<>>]
    /\ courses = <<>> /\ selected = <<>>
    /\ NothingExported /\ NoTimeCall
    /\ NoApp

SpecFields == InitFields /\ [][NextParse]_vars

\* ----------------- specification: records whose text holds special characters

\* Longest text put in a field of a record.
MaxText == 3

\* Backslash, comma, semicolon, line feed, carriage return and a letter.
TextAlphabet == {"\\", ",", ";", "\n", "\r", "n"}
Texts == UNION {[1..n -> TextAlphabet] : n \in 0..MaxText}

\* The table holds one record: the first of the pool with the text as its
\* instructors or as its course name.
InitText ==
    /\ pc = "table"
    /\ \E text \in Texts :
          \/ courses = <<[RecordPool[1] EXCEPT !.instructors = text]>>
          \/ courses = <<[RecordPool[1] EXCEPT !.courseName = text]>>
    /\ selected = <<TRUE>>
    /\ NothingFetched /\ NothingExported /\ NoTimeCall
    /\ NoApp

SpecText == InitText /\ [][NextExport]_vars

\* ------------------- specification: the export when writing the file fails

\* What the destination holds before a run: nothing, or the calendar an
\* earlier run wrote for no event.
OldFile == FileText(IcsHeader \o << <<"E","N","D",":","V","C","A","L","E","N","D","A","R">> >>)

\* Lines 504-505 when the operating system refuses a step. open(filepath, "w")
\* that fails leaves the file alone; once it succeeded the file is cut to
\* nothing, so a failing write leaves a part of the text (none of it, or a
\* first half), and a failing close leaves a part or all of it.
AfterFailure(step, old, text) ==
    CASE step = "open" -> {old}
      [] step = "write" -> {SubSeq(text, 1, k) : k \in {0, Len(text) \div 2}}
      [] step = "close" -> {SubSeq(text, 1, k) : k \in {0, Len(text) \div 2, Len(text)}}
FailedAt(step) ==
    CASE step = "open" -> "open_failed"
      [] step = "write" -> "write_failed"
      [] step = "close" -> "close_failed"

\* generate_ics(cs) whose with-statement raises OSError at the step: nothing
\* in generate_ics catches it, so it reaches the caller.
GenerateIcsFails(cs) ==
    \E dtstamp \in Clocks, seed \in 1..Len(UidPool), step \in {"open", "write", "close"} :
        /\ exported' = cs
        /\ bounds' = _derive_semester_bounds(exported')
        /\ ~bounds'.raised
        /\ clock' = dtstamp
        /\ lines' = IcsLines(exported', bounds', clock', Uids(seed, Len(exported')))
        /\ file' \in AfterFailure(step, file, FileText(lines'))
        /\ pc' = FailedAt(step)

\* _on_generate when generate_ics raises: line 848 catches the exception and
\* shows it.
OnGenerateWriteFails ==
    /\ pc = "table"
    /\ SelectedCourses(courses, selected) # <<>>
    /\ GenerateIcsFails(SelectedCourses(courses, selected))
    /\ UNCHANGED <<payload, extracted, sections, result, courses, selected,
                   timeArg, timeRet, app>>

InitWrite ==
    /\ pc = "table"
    /\ \E choice \in RecordLists :
           courses = [i \in 1..Len(choice) |-> RecordPool[choice[i]]]
    /\ selected = [i \in 1..Len(courses) |-> TRUE]
    /\ NothingFetched /\ NoTimeCall
    /\ exported = <<>> /\ clock = <<>> /\ lines = <<>>
    /\ bounds = [raised |-> FALSE, semester_start |-> 0, until_str |-> <<>>]
    /\ file \in {<<>>, OldFile}
    /\ NoApp

NextWrite ==
    \/ DeselectAll
    \/ OnGenerate
    \/ OnGenerateWriteFails

SpecWrite == InitWrite /\ [][NextWrite]_vars

\* ------------- specification: the window, its buttons and the fetch worker

\* Most workers started in a run.
MaxFetches == 2

\* The modal window that holds the grab, and the stack without it.
Top(stack) == IF stack = <<>> THEN "none" ELSE stack[Len(stack)]
Pop(stack) == SubSeq(stack, 1, Len(stack) - 1)
\* A click reaches the main window only when no modal window holds the grab
\* (lines 534-535 for the paste dialog, 857-858 for the success dialog, and
\* the message boxes of tkinter).
MainWindowActive == modal = <<>>
\* A ttk.Button runs its command only in the normal state (lines 627-628, 705).
FetchEnabled_AnyState == MainWindowActive
FetchEnabled == MainWindowActive /\ fetch_btn = "normal"
GenerateEnabled == MainWindowActive /\ gen_btn = "normal"

\* Lines 768-786: the row of a record; the time column, a display text, is
\* left out.
Row(iid, c) ==
    [iid |-> iid, check |-> TRUE, course |-> c.courseName, type |-> c.eventSubType,
     section |-> c.section, instructors |-> c.instructors, day |-> c.day,
     building |-> c.building, room |-> c.room]
\* Lines 762-787: the old rows are deleted and one row per record inserted;
\* the Treeview numbers the rows it inserts and never reuses a number.
PopulatedTree(cs, first) == [i \in 1..Len(cs) |-> Row(first + i - 1, cs[i])]
Iids(rows) == {rows[i].iid : i \in 1..Len(rows)}
\* Lines 764 and 787: self.selected is cleared, then every new row flagged.
PopulatedSelected_NoClear(sel, rows) == [iid \in DOMAIN sel \cup Iids(rows) |-> TRUE]
PopulatedSelected(sel, rows) == [iid \in Iids(rows) |-> TRUE]

\* self.selected.get(iid, default) and self.selected[iid] = flag.
GetFlag(sel, iid, default) == IF iid \in DOMAIN sel THEN sel[iid] ELSE default
PutFlag(sel, iid, flag) ==
    [k \in DOMAIN sel \cup {iid} |-> IF k = iid THEN flag ELSE sel[k]]
\* Lines 810-814 and 817-821: every row gets the flag and the check mark.
PutAll(sel, rows, flag) ==
    [k \in DOMAIN sel \cup Iids(rows) |-> IF k \in Iids(rows) THEN flag ELSE sel[k]]
CheckAll(rows, flag) == [i \in 1..Len(rows) |-> [rows[i] EXCEPT !.check = flag]]

\* Lines 826-830: the records at the positions of the flagged rows.
FlaggedAt(children, sel, cs) ==
    SelectSeq([i \in 1..Len(children) |-> i],
              LAMBDA idx : GetFlag(sel, children[idx].iid, FALSE) /\ idx <= Len(cs))
SelectedRecords(positions, cs) == [k \in 1..Len(positions) |-> cs[positions[k]]]

\* The responses a worker gets: two registered sections, one, none that is
\* registered, and one parse_schedule raises on.
AppPayloads == {Wrapped(<<SecAlgorithms, SecNetworks>>), Wrapped(<<SecDatabases>>),
                Wrapped(<<SecUnregistered>>), Wrapped(<<SecNumericTime>>)}

\* The window after construction (lines 601-615 and 627-690).
InitApp ==
    /\ pc = "table"
    /\ courses = <<>> /\ selected = <<>>
    /\ NothingFetched /\ NothingExported /\ NoTimeCall
    /\ NoApp

\* _on_fetch up to wait_window (lines 697-698): the paste dialog opens.
_on_fetch ==
    /\ FetchEnabled
    /\ fetches < MaxFetches
    /\ modal' = Append(modal, "paste")
    /\ UNCHANGED <<pc, payload, extracted, sections, result, courses, selected,
                   exported, bounds, clock, lines, file, timeArg, timeRet,
                   tree, nextIid, fetch_btn, gen_btn, workers, pending, chosen, fetches>>

\* PasteDialog._on_cancel, and _on_fetch from line 700: it returns.
_on_cancel ==
    /\ Top(modal) = "paste"
    /\ modal' = Pop(modal)
    /\ UNCHANGED <<pc, payload, extracted, sections, result, courses, selected,
                   exported, bounds, clock, lines, file, timeArg, timeRet,
                   tree, nextIid, fetch_btn, gen_btn, workers, pending, chosen, fetches>>

\* PasteDialog._on_ok on a text parse_fetch_command refuses: an error box
\* opens over the dialog (lines 581-583).
_on_ok_refused ==
    /\ Top(modal) = "paste"
    /\ modal' = Append(modal, "error")
    /\ UNCHANGED <<pc, payload, extracted, sections, result, courses, selected,
                   exported, bounds, clock, lines, file, timeArg, timeRet,
                   tree, nextIid, fetch_btn, gen_btn, workers, pending, chosen, fetches>>

\* PasteDialog._on_ok on a fetch command, and _on_fetch from line 700: the
\* button is disabled and the worker started.
_on_ok ==
    /\ Top(modal) = "paste"
    /\ modal' = Pop(modal)
    /\ fetch_btn' = "disabled"
    /\ workers' = workers + 1
    /\ fetches' = fetches + 1
    /\ UNCHANGED <<pc, payload, extracted, sections, result, courses, selected,
                   exported, bounds, clock, lines, file, timeArg, timeRet,
                   tree, nextIid, gen_btn, pending, chosen>>

\* _fetch_worker when fetch_schedule raises (lines 710-716).
_fetch_worker_no_response ==
    /\ workers > 0
    /\ workers' = workers - 1
    /\ pending' = Append(pending, [fn |-> "_on_fetch_err", courses |-> <<>>])
    /\ UNCHANGED <<pc, payload, extracted, sections, result, courses, selected,
                   exported, bounds, clock, lines, file, timeArg, timeRet,
                   tree, nextIid, fetch_btn, gen_btn, modal, chosen, fetches>>

\* _fetch_worker on a response: parse_schedule, then the callback is queued.
_fetch_worker ==
    /\ workers > 0
    /\ payload' \in AppPayloads
    /\ extracted' = _extract_sections(payload')
    /\ sections' = SectionsFrom(extracted', payload')
    /\ result' = BuildCourses(sections')
    /\ workers' = workers - 1
    /\ pending' = Append(pending,
                         IF result'.raised
                         THEN [fn |-> "_on_fetch_err", courses |-> <<>>]
                         ELSE [fn |-> "_on_fetch_ok", courses |-> result'.courses])
    /\ UNCHANGED <<pc, courses, selected, exported, bounds, clock, lines, file,
                   timeArg, timeRet,
                   tree, nextIid, fetch_btn, gen_btn, modal, chosen, fetches>>

\* _on_fetch_ok, run by the event loop, which also turns inside a modal window.
_on_fetch_ok ==
    /\ pending # <<>>
    /\ Head(pending).fn = "_on_fetch_ok"
    /\ pending' = Tail(pending)
    /\ courses' = Head(pending).courses
    /\ tree' = PopulatedTree(courses', nextIid)
    /\ nextIid' = nextIid + Len(courses')
    /\ selected' = PopulatedSelected(selected, tree')
    /\ fetch_btn' = "normal"
    /\ gen_btn' = IF courses' # <<>> THEN "normal" ELSE gen_btn
    /\ modal' = IF courses' # <<>> THEN modal ELSE Append(modal, "info")
    /\ UNCHANGED <<pc, payload, extracted, sections, result,
                   exported, bounds, clock, lines, file, timeArg, timeRet,
                   workers, chosen, fetches>>

\* _on_fetch_err.
_on_fetch_err ==
    /\ pending # <<>>
    /\ Head(pending).fn = "_on_fetch_err"
    /\ pending' = Tail(pending)
    /\ fetch_btn' = "normal"
    /\ modal' = Append(modal, "error")
    /\ UNCHANGED <<pc, payload, extracted, sections, result, courses, selected,
                   exported, bounds, clock, lines, file, timeArg, timeRet,
                   tree, nextIid, gen_btn, workers, chosen, fetches>>

\* _on_tree_click on the check column of the i-th row.
_on_tree_click(i) ==
    /\ MainWindowActive
    /\ i \in 1..Len(tree)
    /\ selected' = PutFlag(selected, tree[i].iid, ~GetFlag(selected, tree[i].iid, TRUE))
    /\ tree' = [tree EXCEPT ![i].check = selected'[tree[i].iid]]
    /\ UNCHANGED <<pc, payload, extracted, sections, result, courses,
                   exported, bounds, clock, lines, file, timeArg, timeRet,
                   nextIid, fetch_btn, gen_btn, modal, workers, pending, chosen, fetches>>

_select_all ==
    /\ GenerateEnabled
    /\ selected' = PutAll(selected, tree, TRUE)
    /\ tree' = CheckAll(tree, TRUE)
    /\ UNCHANGED <<pc, payload, extracted, sections, result, courses,
                   exported, bounds, clock, lines, file, timeArg, timeRet,
                   nextIid, fetch_btn, gen_btn, modal, workers, pending, chosen, fetches>>

_deselect_all ==
    /\ GenerateEnabled
    /\ selected' = PutAll(selected, tree, FALSE)
    /\ tree' = CheckAll(tree, FALSE)
    /\ UNCHANGED <<pc, payload, extracted, sections, result, courses,
                   exported, bounds, clock, lines, file, timeArg, timeRet,
                   nextIid, fetch_btn, gen_btn, modal, workers, pending, chosen, fetches>>

\* _on_generate up to its first message box (lines 826-841): the warning when
\* no row is flagged, else the confirmation.
_on_generate ==
    /\ GenerateEnabled
    /\ chosen' = SelectedRecords(FlaggedAt(tree, selected, courses), courses)
    /\ modal' = Append(modal, IF chosen' = <<>> THEN "warning" ELSE "confirm")
    /\ UNCHANGED <<pc, payload, extracted, sections, result, courses, selected,
                   exported, bounds, clock, lines, file, timeArg, timeRet,
                   tree, nextIid, fetch_btn, gen_btn, workers, pending, fetches>>

\* _on_generate from line 842 when the confirmation is declined.
_on_generate_declined ==
    /\ Top(modal) = "confirm"
    /\ modal' = Pop(modal)
    /\ chosen' = <<>>
    /\ UNCHANGED <<pc, payload, extracted, sections, result, courses, selected,
                   exported, bounds, clock, lines, file, timeArg, timeRet,
                   tree, nextIid, fetch_btn, gen_btn, workers, pending, fetches>>

\* _on_generate from line 842 when it is accepted: generate_ics, then the
\* success dialog, or the error box when it raised.
_on_generate_confirmed ==
    /\ Top(modal) = "confirm"
    /\ GenerateIcs(chosen)
    /\ modal' = Append(Pop(modal), IF pc' = "exported" THEN "success" ELSE "error")
    /\ chosen' = <<>>
    /\ UNCHANGED <<payload, extracted, sections, result, courses, selected,
                   timeArg, timeRet,
                   tree, nextIid, fetch_btn, gen_btn, workers, pending, fetches>>

\* The user closes a message box or the success dialog.
Dismiss ==
    /\ Top(modal) \in {"info", "error", "warning", "success"}
    /\ modal' = Pop(modal)
    /\ UNCHANGED <<pc, payload, extracted, sections, result, courses, selected,
                   exported, bounds, clock, lines, file, timeArg, timeRet,
                   tree, nextIid, fetch_btn, gen_btn, workers, pending, chosen, fetches>>

NextApp ==
    \/ _on_fetch
    \/ _on_cancel
    \/ _on_ok_refused
    \/ _on_ok
    \/ _fetch_worker_no_response
    \/ _fetch_worker
    \/ _on_fetch_ok
    \/ _on_fetch_err
    \/ \E i \in 1..MaxRecords : _on_tree_click(i)
    \/ _select_all
    \/ _deselect_all
    \/ _on_generate
    \/ _on_generate_declined
    \/ _on_generate_confirmed
    \/ Dismiss

SpecApp == InitApp /\ [][NextApp]_vars

\* ------------------------------------------------ reading the calendar lines

StartsWith(l, prefix) == Len(l) >= Len(prefix) /\ SubSeq(l, 1, Len(prefix)) = prefix
\* The text after the prefix of every line that starts with it, in line order.
ValuesOf(ls, prefix) ==
    [k \in 1..Len(SelectSeq(ls, LAMBDA l : StartsWith(l, prefix))) |->
        SubSeq(SelectSeq(ls, LAMBDA l : StartsWith(l, prefix))[k],
               Len(prefix) + 1,
               Len(SelectSeq(ls, LAMBDA l : StartsWith(l, prefix))[k]))]
BeginEvent == <<"B","E","G","I","N",":","V","E","V","E","N","T">>
EndEvent == <<"E","N","D",":","V","E","V","E","N","T">>
CountOf(ls, line) == Len(SelectSeq(ls, LAMBDA l : l = line))
\* The date an eight-digit YYYYMMDD text names.
DateOfDigits(d) ==
    ToOrdinal(ToInt(SubSeq(d, 1, 4)), ToInt(SubSeq(d, 5, 6)), ToInt(SubSeq(d, 7, 8)))
IsYmd(d) == Len(d) = 8 /\ AllDigits(d)

\* A record that can anchor a recurring event: it has a day code and a start.
Anchored(course) == ~IsNone(course.dayCode) /\ ~IsNone(course.startTime)
\* The weekday number (Monday = 0) of a day code, by its place in the week.
WeekCodes == <<<<"M","O">>, <<"T","U">>, <<"W","E">>, <<"T","H">>, <<"F","R">>, <<"S","A">>, <<"S","U">>>>
WeekdayOfCode(code) == (CHOOSE i \in 1..7 : WeekCodes[i] = code) - 1

\* ---------------------------------------------------------------- claims

\* C1: for the payload {data:{schedule:[{sections:[[],[],[],[S]]}]}} with S
\* the registered Algorithms section, parse_schedule returns exactly one
\* record, with dayCode MO, startTime (10,0), endTime (11,30) and instructors
\* "A Smith", and generate_ics on it emits exactly one VEVENT, whose rule line
\* is RRULE:FREQ=WEEKLY;BYDAY=MO;UNTIL=20260521T000000Z.
C1_Payload == Wrapped(<<SecAlgorithms>>)
C1_EndToEnd ==
    payload = C1_Payload =>
        /\ pc \notin {"raised", "failed"}
        /\ pc \in {"parsed", "exported"} =>
            /\ Len(result.courses) = 1
            /\ result.courses[1].dayCode = JStr(<<"M","O">>)
            /\ result.courses[1].startTime = PyTuple(10, 0)
            /\ result.courses[1].endTime = PyTuple(11, 30)
            /\ result.courses[1].instructors = <<"A"," ","S","m","i","t","h">>
        /\ pc = "exported" =>
            /\ exported = result.courses
            /\ CountOf(lines, BeginEvent) = 1
            /\ CountOf(lines, EndEvent) = 1
            /\ SelectSeq(lines, LAMBDA l : StartsWith(l, <<"R","R","U","L","E">>))
                 = << <<"R","R","U","L","E",":","F","R","E","Q","=","W","E","E","K","L","Y",";","B","Y","D","A","Y","=","M","O",";","U","N","T","I","L","=","2","0","2","6","0","5","2","1","T","0","0","0","0","0","0","Z">> >>
C1_Exported == payload = C1_Payload /\ pc = "exported" /\ Len(exported) = 1

\* The section mappings of the payload before the registration filter, and
\* whether the extracted list holds a mapping.
Retained(s) == \E j \in 1..Len(extracted) : extracted[j] = s
LacksFlag(s) == ~HasKey(s, "isRegistered")
FlagIsTrue(s) == Truthy(Get(s, "isRegistered"))

\* C2 as claimed: in the primary extraction path every flattened section
\* mapping without an isRegistered key is retained in the extracted list, and
\* one that has the key is retained only if its value is true.
C2_UnflaggedRetained ==
    pc # "fetched" =>
        \A i \in 1..Len(FlattenSections(payload)) :
            /\ LacksFlag(FlattenSections(payload)[i])
                 => Retained(FlattenSections(payload)[i])
            /\ (~LacksFlag(FlattenSections(payload)[i])
                  /\ Retained(FlattenSections(payload)[i]))
                 => FlagIsTrue(FlattenSections(payload)[i])

\* C2 as amended: in the primary extraction path no flattened section mapping
\* without an isRegistered key is retained in the extracted list, and one that
\* has the key is retained only if its value is true (in Python's sense).
C2_UnflaggedDropped ==
    pc # "fetched" =>
        \A i \in 1..Len(FlattenSections(payload)) :
            /\ LacksFlag(FlattenSections(payload)[i])
                 => ~Retained(FlattenSections(payload)[i])
            /\ (~LacksFlag(FlattenSections(payload)[i])
                  /\ Retained(FlattenSections(payload)[i]))
                 => FlagIsTrue(FlattenSections(payload)[i])
C2_UnflaggedBesideRetained ==
    /\ pc = "parsed"
    /\ extracted # <<>>
    /\ \E i \in 1..Len(FlattenSections(payload)) : LacksFlag(FlattenSections(payload)[i])

\* C3: for every payload, no meeting record parse_schedule returns is built
\* from a raw entry that carries an isRegistered key with a false value,
\* whether the primary extraction or the fallback supplied the entry.
HasFalseFlag(s) == IsDict(s) /\ HasKey(s, "isRegistered") /\ ~FlagIsTrue(s)
C3_NoUnregisteredRecord ==
    pc = "parsed" =>
        \A i \in 1..Len(sections) :
            HasFalseFlag(sections[i]) => RecordCourses(sections[i]).courses = <<>>

\* C4: for every JSON-valid payload parse_schedule returns a list and raises
\* no exception, and a payload neither the primary nor the fallback path
\* recognises returns the empty list.
C4_NeverRaises ==
    /\ pc # "raised"
    /\ (pc = "parsed" /\ sections = <<>>) => result.courses = <<>>

\* C5: generate_ics emits exactly one VEVENT block for each input record that
\* has both a dayCode and a startTime, in input order (the k-th block carries
\* the summary, day code and start time of the k-th such record), and none
\* for a record whose dayCode or startTime is none, although parse_schedule
\* returned that record.
SummaryOf(course) ==
    course.courseName
      \o (IF course.eventSubType = <<>> THEN <<>> ELSE <<" ","-"," ">> \o course.eventSubType)
EventOf(course, summary, rrule, dtstart) ==
    /\ summary = SummaryOf(course)
    /\ StartsWith(rrule, <<"F","R","E","Q","=","W","E","E","K","L","Y",";","B","Y","D","A","Y","=">> \o course.dayCode.v \o <<";">>)
    /\ Len(dtstart) = 15
    /\ SubSeq(dtstart, 9, 15)
         = <<"T">> \o Pad2(course.startTime.v[1]) \o Pad2(course.startTime.v[2]) \o <<"0","0">>
EventsOf(cs, ls) ==
    /\ CountOf(ls, BeginEvent) = Len(cs)
    /\ CountOf(ls, EndEvent) = Len(cs)
    /\ Len(ValuesOf(ls, <<"S","U","M","M","A","R","Y",":">>)) = Len(cs)
    /\ Len(ValuesOf(ls, <<"R","R","U","L","E",":">>)) = Len(cs)
    /\ Len(ValuesOf(ls, <<"D","T","S","T","A","R","T",":">>)) = Len(cs)
    /\ \A k \in 1..Len(cs) :
          EventOf(cs[k], ValuesOf(ls, <<"S","U","M","M","A","R","Y",":">>)[k], ValuesOf(ls, <<"R","R","U","L","E",":">>)[k],
                  ValuesOf(ls, <<"D","T","S","T","A","R","T",":">>)[k])
C5_OneEventPerAnchoredRecord ==
    pc = "exported" =>
        /\ exported = result.courses
        /\ EventsOf(SelectSeq(exported, Anchored), lines)
C5_SkippedAndEmitted ==
    /\ pc = "exported"
    /\ \E i \in 1..Len(exported) :
          /\ exported[i].day = JStr(<<"N","/","A">>)
          /\ IsNone(exported[i].dayCode)
          /\ exported[i].startTime = PyTuple(9, 0)
    /\ \E i \in 1..Len(exported) : Anchored(exported[i])
    /\ CountOf(lines, BeginEvent) = 1

\* C6: for every emitted event the DTSTART date is the earliest date on or
\* after the anchor whose weekday is the record's dayCode: it lies 0 to 6 days
\* after the anchor and its weekday is that of dayCode.
FirstOnWeekday(cs, starts, anchor) ==
    /\ Len(starts) = Len(cs)
    /\ \A k \in 1..Len(cs) :
          /\ IsYmd(SubSeq(starts[k], 1, 8))
          /\ DateOfDigits(SubSeq(starts[k], 1, 8)) - anchor \in 0..6
          /\ Weekday(DateOfDigits(SubSeq(starts[k], 1, 8))) = WeekdayOfCode(cs[k].dayCode.v)
C6_FirstOccurrence ==
    pc = "exported" =>
        FirstOnWeekday(SelectSeq(exported, Anchored), ValuesOf(lines, <<"D","T","S","T","A","R","T",":">>),
                       bounds.semester_start)
C6_SundayToSaturday ==
    /\ pc = "exported"
    /\ Len(ValuesOf(lines, <<"D","T","S","T","A","R","T",":">>)) >= 5
    /\ \E k \in 1..Len(ValuesOf(lines, <<"D","T","S","T","A","R","T",":">>)) :
          DateOfDigits(SubSeq(ValuesOf(lines, <<"D","T","S","T","A","R","T",":">>)[k], 1, 8))
            = bounds.semester_start + 6
    /\ \E k \in 1..Len(ValuesOf(lines, <<"D","T","S","T","A","R","T",":">>)) :
          DateOfDigits(SubSeq(ValuesOf(lines, <<"D","T","S","T","A","R","T",":">>)[k], 1, 8))
            = bounds.semester_start

\* C7: for every record list with at least one parseable startDate the anchor
\* _derive_semester_bounds returns is the Sunday on or before the earliest
\* parsed startDate (a Sunday, not after any parsed start date, at most 6 days
\* before one), in whatever order the records come; for the start dates
\* 3/10/2026 and 2/15/2026 it is the Sunday on or before 2/15/2026.
SundayBeforeEarliest(anchor, start_dates) ==
    /\ Weekday(anchor) = 6
    /\ \A d \in start_dates : anchor <= d
    /\ \E d \in start_dates : d - anchor <= 6
StartTexts(cs) == {cs[i].startDate : i \in 1..Len(cs)}
C7_AnchorIsSundayOfEarliest ==
    (pc = "exported" /\ DatesIn(ParsedStarts(exported)) # {}) =>
        /\ SundayBeforeEarliest(bounds.semester_start, DatesIn(ParsedStarts(exported)))
        /\ StartTexts(exported) = {JStr(<<"3","/","1","0","/","2","0","2","6">>), JStr(<<"2","/","1","5","/","2","0","2","6">>)}
             => bounds.semester_start = ToOrdinal(2026, 2, 15)
C7_LaterStartFirst ==
    /\ pc = "exported"
    /\ Len(exported) = 2
    /\ exported[1].startDate = JStr(<<"3","/","1","0","/","2","0","2","6">>)
    /\ exported[2].startDate = JStr(<<"2","/","1","5","/","2","0","2","6">>)

\* C8: the anchor and the default end date used when a selected subset is
\* exported are those derived from the full list of meeting records, so the
\* DTSTART date of an exported record is the first occurrence after the
\* full list's anchor whichever other records are selected.
C8_BoundsOfFullList ==
    pc = "exported" =>
        /\ bounds = _derive_semester_bounds(courses)
        /\ FirstOnWeekday(SelectSeq(exported, Anchored), ValuesOf(lines, <<"D","T","S","T","A","R","T",":">>),
                          _derive_semester_bounds(courses).semester_start)

\* C9: for every emitted event the RRULE line is
\* FREQ=WEEKLY;BYDAY=<dayCode>;UNTIL=<D>T000000Z, where D is the record's own
\* endDate as YYYYMMDD when that endDate parses, and otherwise the default:
\* the latest parseable endDate among the records passed in, or 20260521 when
\* none parses.
NoneLater(d, dates) == \A e \in dates : e <= d
UntilDate(own, end_dates) ==
    IF IsDate(own) THEN own.v
    ELSE IF end_dates # {} THEN CHOOSE d \in end_dates : NoneLater(d, end_dates)
    ELSE ToOrdinal(2026, 5, 21)
RuleOf(course, rrule, end_dates) ==
    /\ Len(rrule) = 43
    /\ SubSeq(rrule, 1, 27) = <<"F","R","E","Q","=","W","E","E","K","L","Y",";","B","Y","D","A","Y","=">> \o course.dayCode.v \o <<";","U","N","T","I","L","=">>
    /\ IsYmd(SubSeq(rrule, 28, 35))
    /\ DateOfDigits(SubSeq(rrule, 28, 35))
         = UntilDate(_parse_date_str(course.endDate), end_dates)
    /\ SubSeq(rrule, 36, 43) = <<"T","0","0","0","0","0","0","Z">>
RulesOf(cs, rules, end_dates) ==
    /\ Len(rules) = Len(cs)
    /\ \A k \in 1..Len(cs) : RuleOf(cs[k], rules[k], end_dates)
C9_RuleLine ==
    pc = "exported" =>
        RulesOf(SelectSeq(exported, Anchored), ValuesOf(lines, <<"R","R","U","L","E",":">>),
                DatesIn(ParsedEnds(exported)))
C9_DefaultIsLatest ==
    /\ pc = "exported"
    /\ Cardinality(DatesIn(ParsedEnds(exported))) >= 2
    /\ \E i \in 1..Len(exported) :
          Anchored(exported[i]) /\ ~IsDate(_parse_date_str(exported[i].endDate))
    /\ \E i \in 1..Len(exported) :
          Anchored(exported[i]) /\ IsDate(_parse_date_str(exported[i].endDate))

\* The 24-hour value of hour h of the 12-hour clock under marker mk.
Hour24(h, mk) ==
    IF Upper(mk) = <<"A", "M">> THEN (IF h = 12 THEN 0 ELSE h)
    ELSE (IF h = 12 THEN 12 ELSE h + 12)

\* C10: for every hour 1..12, minute 00..59 and AM/PM marker in any letter
\* case, with or without blanks before it, _parse_time returns the 24-hour
\* (hour, minute): 12 AM is hour 0, 12 PM is hour 12, 1..11 PM are 13..23.
C10_AnyCaseMarker ==
    pc = "timed" => timeRet = PyTuple(Hour24(timeArg.h, timeArg.marker), timeArg.m)

\* C11: every meeting record parse_schedule returns has startTime and endTime
\* each either none or a pair (hour, minute) with 0 <= hour <= 23 and
\* 0 <= minute <= 59, whatever time text the entry carried.
TimeOfDay(x) == IsNone(x) \/ (x.t = "tuple" /\ x.v[1] \in 0..23 /\ x.v[2] \in 0..59)
C11_TimesInRange ==
    pc = "parsed" =>
        \A i \in 1..Len(result.courses) :
            TimeOfDay(result.courses[i].startTime) /\ TimeOfDay(result.courses[i].endTime)

\* The English weekday names; the abbreviations of a name are its first two
\* and its first three letters, and its code is its first two letters in
\* upper case.
WeekdayNames == <<<<"m","o","n","d","a","y">>, <<"t","u","e","s","d","a","y">>, <<"w","e","d","n","e","s","d","a","y">>, <<"t","h","u","r","s","d","a","y">>, <<"f","r","i","d","a","y">>, <<"s","a","t","u","r","d","a","y">>,
                  <<"s","u","n","d","a","y">>>>
Names(name) == {name, SubSeq(name, 1, 2), SubSeq(name, 1, 3)}
NamesDay(text, name) == Lower(Strip(text)) \in Names(name)
DayCodeOf(day, day_code) ==
    /\ \A i \in 1..Len(WeekdayNames) :
          NamesDay(day, WeekdayNames[i])
            => day_code = JStr(Upper(SubSeq(WeekdayNames[i], 1, 2)))
    /\ (\A i \in 1..Len(WeekdayNames) : ~NamesDay(day, WeekdayNames[i]))
          => IsNone(day_code)

\* C12: a meeting record's dayCode is not none exactly when its source day
\* string, without its letter case and the blanks around it, is a full English
\* weekday name or the 2- or 3-letter abbreviation of one, and then it is that
\* day's code among MO, TU, WE, TH, FR, SA, SU; any other string gives none,
\* and none raises.
C12_DayCode ==
    /\ pc # "raised"
    /\ pc = "parsed" =>
          \A i \in 1..Len(result.courses) :
              IsStr(result.courses[i].day)
                => DayCodeOf(result.courses[i].day.v, result.courses[i].dayCode)
C12_NormalisedName ==
    /\ pc = "parsed"
    /\ \E i \in 1..Len(result.courses) :
          /\ result.courses[i].day.v # Lower(Strip(result.courses[i].day.v))
          /\ Len(Strip(result.courses[i].day.v)) = 3
          /\ result.courses[i].dayCode = JStr(<<"T","H">>)

\* The sub-entries the records of a raw entry are built from. As claimed: the
\* entries of the first list under a nested-meetings key, else the entry
\* itself. As built: the mappings of the first true value under those keys
\* when it is a list, else the entry itself.
NestedKeyOrder == <<"schedules", "scheduleTimePeriods", "scheduleList", "schedule",
                    "timePeriods">>
ListsUnder(rec) ==
    SelectSeq([i \in 1..Len(NestedKeyOrder) |-> Get(rec, NestedKeyOrder[i])], IsList)
Sources(rec, asClaimed) ==
    IF asClaimed
    THEN (IF ListsUnder(rec) # <<>> THEN ListsUnder(rec)[1].v ELSE <<rec>>)
    ELSE (IF IsList(FirstTruthy(rec, NestedKeyOrder, JNull))
          THEN SelectSeq(FirstTruthy(rec, NestedKeyOrder, JNull).v, IsDict)
          ELSE <<rec>>)
SharedFields(course) ==
    <<course.courseName, course.eventId, course.eventSubType, course.section,
      course.instructors, course.startDate, course.endDate>>
\* recs are one record per source, in order, sharing the course-level fields.
BuiltFrom(srcs, recs) ==
    \A k \in 1..Len(recs) :
        /\ SharedFields(recs[k]) = SharedFields(recs[1])
        /\ IsDict(srcs[k])
             => recs[k].day = FirstTruthy(srcs[k], <<"dayDesc", "day", "dayName">>, JStr(<<>>))
RECURSIVE SectionsBuilt(_, _, _)
SectionsBuilt(secs, recs, asClaimed) ==
    IF secs = <<>> THEN recs = <<>>
    ELSE /\ Len(recs) >= Len(Sources(Head(secs), asClaimed))
         /\ BuiltFrom(Sources(Head(secs), asClaimed),
                      SubSeq(recs, 1, Len(Sources(Head(secs), asClaimed))))
         /\ SectionsBuilt(Tail(secs),
                          SubSeq(recs, Len(Sources(Head(secs), asClaimed)) + 1, Len(recs)),
                          asClaimed)

\* C16 as claimed: each raw section gives one meeting record per sub-entry of
\* its nested meetings list when such a list is present (k sub-entries give k
\* records, in order, sharing the course-level fields) and exactly one record
\* when there is none; the records are these, section after section.
C16_OnePerSubEntry ==
    pc = "parsed" => SectionsBuilt(sections, result.courses, TRUE)

\* C16 as amended: each raw section gives one meeting record per sub-entry
\* that is a mapping when the first true value under its nested-meetings keys
\* is a list (in order, sharing the course-level fields), and exactly one
\* record otherwise (no such key, an empty list, or a value that is no list);
\* the records are these, section after section.
C16_OnePerMapping ==
    pc = "parsed" => SectionsBuilt(sections, result.courses, FALSE)
C16_MappingBesideText ==
    /\ pc = "parsed"
    /\ Len(sections) = 2
    /\ \E i \in 1..2 :
          /\ Len(ListsUnder(sections[i])) = 1
          /\ Len(ListsUnder(sections[i])[1].v) = 2
          /\ Len(Sources(sections[i], FALSE)) = 1
    /\ Len(result.courses) = 2

\* The text an iCalendar reader gets from an escaped text: \\ is a backslash,
\* \, a comma, \; a semicolon, \n a line feed.
RECURSIVE Unescape(_)
Unescape(s) ==
    IF s = <<>> THEN <<>>
    ELSE IF s[1] = "\\" /\ Len(s) >= 2
    THEN <<(IF s[2] = "n" THEN "\n" ELSE s[2])>> \o Unescape(SubSeq(s, 3, Len(s)))
    ELSE <<s[1]>> \o Unescape(Tail(s))
\* No comma, semicolon or line feed of s stands outside an escape pair, and
\* every backslash starts a pair the reader knows.
RECURSIVE Escaped(_)
Escaped(s) ==
    IF s = <<>> THEN TRUE
    ELSE IF s[1] = "\\"
    THEN Len(s) >= 2 /\ s[2] \in {"\\", ",", ";", "n"} /\ Escaped(SubSeq(s, 3, Len(s)))
    ELSE s[1] \notin {",", ";", "\n"} /\ Escaped(Tail(s))
DescriptionPrefix == <<"D","E","S","C","R","I","P","T","I","O","N",":","I","n","s","t","r","u","c","t","o","r","(","s",")",":"," ">>

\* C13: _ics_escape can be undone: for every text over backslash, comma,
\* semicolon, line feed and other characters, unescaping the escaped text by
\* the iCalendar rules gives the text back, and the escaped text holds no
\* unescaped comma, semicolon or raw line feed. Checked on the DESCRIPTION
\* line generate_ics writes for the instructors text.
C13_EscapeUndone ==
    (pc = "exported" /\ exported[1].instructors # <<>>) =>
        /\ Len(ValuesOf(lines, DescriptionPrefix)) = 1
        /\ Unescape(ValuesOf(lines, DescriptionPrefix)[1]) = exported[1].instructors
        /\ Escaped(ValuesOf(lines, DescriptionPrefix)[1])
        /\ ValuesOf(lines, DescriptionPrefix)[1] = _ics_escape(exported[1].instructors)
C13_BackslashBeforeN ==
    /\ pc = "exported"
    /\ exported[1].instructors = <<"\\", "n", "\n">>
    /\ ValuesOf(lines, DescriptionPrefix) = << <<"\\", "\\", "n", "\\", "n">> >>

\* The lines a reader finds in a text: the pieces between its CR LF pairs
\* (the piece after the last pair included).
CrLfAt(text) == {i \in 1..(Len(text) - 1) : text[i] = "\r" /\ text[i + 1] = "\n"}
\* Where the k-th piece starts: after the (k-1)-th pair.
PieceStart(text, breaks, k) ==
    IF k = 1 THEN 1
    ELSE 2 + CHOOSE p \in breaks : Cardinality({q \in breaks : q < p}) = k - 2
PieceEnd(text, breaks, k) ==
    IF k = Cardinality(breaks) + 1 THEN Len(text)
    ELSE (CHOOSE p \in breaks : Cardinality({q \in breaks : q < p}) = k - 1) - 1
CrLfLines(text) ==
    [k \in 1..(Cardinality(CrLfAt(text)) + 1) |->
        SubSeq(text, PieceStart(text, CrLfAt(text), k), PieceEnd(text, CrLfAt(text), k))]
NoLineBreak(l) == \A i \in 1..Len(l) : l[i] \notin {"\r", "\n"}
\* ls is a sequence of VEVENT blocks: BEGIN:VEVENT, then UID, DTSTAMP,
\* DTSTART, DTEND, RRULE and SUMMARY in that order, then at most one
\* DESCRIPTION and at most one LOCATION, then END:VEVENT.
EventFields == <<<<"U","I","D",":">>, <<"D","T","S","T","A","M","P",":">>, <<"D","T","S","T","A","R","T",":">>, <<"D","T","E","N","D",":">>, <<"R","R","U","L","E",":">>, <<"S","U","M","M","A","R","Y",":">>>>
RECURSIVE BlockEnd(_, _)
RECURSIVE Blocks(_)
\* ls from position i on: the optional lines, END:VEVENT, then blocks.
BlockEnd(ls, i) ==
    IF i > Len(ls) THEN FALSE
    ELSE IF ls[i] = EndEvent THEN Blocks(SubSeq(ls, i + 1, Len(ls)))
    ELSE IF i = 8 /\ StartsWith(ls[i], <<"D","E","S","C","R","I","P","T","I","O","N",":">>) THEN BlockEnd(ls, 9)
    ELSE IF i \in {8, 9} /\ StartsWith(ls[i], <<"L","O","C","A","T","I","O","N",":">>)
    THEN i + 1 <= Len(ls) /\ ls[i + 1] = EndEvent /\ Blocks(SubSeq(ls, i + 2, Len(ls)))
    ELSE FALSE
Blocks(ls) ==
    IF ls = <<>> THEN TRUE
    ELSE /\ Len(ls) >= 8
         /\ ls[1] = BeginEvent
         /\ \A k \in 1..Len(EventFields) : StartsWith(ls[k + 1], EventFields[k])
         /\ BlockEnd(ls, 8)
WellFormed(ls) ==
    /\ Len(ls) >= Len(IcsHeader) + 2
    /\ SubSeq(ls, 1, Len(IcsHeader)) = IcsHeader
    /\ ls[Len(ls) - 1] = <<"E","N","D",":","V","C","A","L","E","N","D","A","R">>
    /\ ls[Len(ls)] = <<>>
    /\ \A i \in 1..Len(ls) : NoLineBreak(ls[i])
    /\ Blocks(SubSeq(ls, Len(IcsHeader) + 1, Len(ls) - 2))

\* C15: for every record list, field values with commas, semicolons or line
\* breaks included, the text generate_ics writes is a well-formed sequence of
\* CR LF terminated lines: the fixed header from BEGIN:VCALENDAR on, then only
\* VEVENT blocks that are not nested and hold UID, DTSTAMP, DTSTART, DTEND,
\* RRULE, SUMMARY in that order, at most one DESCRIPTION and at most one
\* LOCATION, and END:VEVENT, then END:VCALENDAR.
C15_WellFormed ==
    pc = "exported" => WellFormed(CrLfLines(file))

\* The lines a second run on the same records with the same clock reading
\* writes, its identifiers drawn from the uuid4 stream of the seed.
SecondRun(seed) == IcsLines(exported, bounds, clock, Uids(seed, Len(exported)))
UidLine(l) == StartsWith(l, <<"U","I","D",":">>)
SameButUids(ls, other) ==
    /\ Len(ls) = Len(other)
    /\ \A i \in 1..Len(ls) : ls[i] # other[i] => UidLine(ls[i]) /\ UidLine(other[i])

\* C14: two runs of generate_ics on the same record list with the same clock
\* reading write the same lines, line by line, except for the UID lines; and
\* within one run every VEVENT block carries the same DTSTAMP value.
C14_SameButUids ==
    pc = "exported" =>
        /\ \A seed \in 1..Len(UidPool) : SameButUids(lines, SecondRun(seed))
        /\ Len(ValuesOf(lines, <<"D","T","S","T","A","M","P",":">>)) = CountOf(lines, BeginEvent)
        /\ \A k \in 1..Len(ValuesOf(lines, <<"D","T","S","T","A","M","P",":">>)) : ValuesOf(lines, <<"D","T","S","T","A","M","P",":">>)[k] = clock
C14_TwoEventsOtherUids ==
    /\ pc = "exported"
    /\ CountOf(lines, BeginEvent) >= 2
    /\ \E seed \in 1..Len(UidPool) :
          /\ SecondRun(seed) # lines
          /\ ValuesOf(SecondRun(seed), <<"U","I","D",":">>)[1] # ValuesOf(lines, <<"U","I","D",":">>)[1]

\* The primary path found a schedule list in the payload: a non-empty list
\* under "schedule" or "studentSchedule", below "data" when there is one.
RecognisedScheduleList(data) ==
    IsList(ScheduleList(Inner(data))) /\ ScheduleList(Inner(data)).v # <<>>

C17_NoPartialFile ==
    [][pc' \in {"open_failed", "write_failed", "close_failed"} =>
           file' \in {file, FileText(lines')}]_vars

\* The fetches under way: the worker threads that run, and the callbacks of
\* finished workers that the UI thread has not run yet.
InFlight == workers + Len(pending)

\* C19: at most one fetch worker is in flight at any time: from the moment
\* _on_fetch starts a worker the Fetch button stays disabled until the
\* worker's success or error callback runs on the UI thread, and no second
\* worker is started in between, under any interleaving of UI events and
\* worker completion.
C19_OneWorker ==
    /\ InFlight <= 1
    /\ InFlight = 1 => fetch_btn = "disabled"
C19_ClickWhileFetching ==
    /\ workers = 1
    /\ fetches = 2
    /\ modal = <<"confirm">>
    /\ \E i \in 1..Len(tree) : ~tree[i].check

\* Row r of the table shows record c.
Shows(r, c) ==
    /\ r.course = c.courseName /\ r.type = c.eventSubType /\ r.section = c.section
    /\ r.instructors = c.instructors /\ r.day = c.day
    /\ r.building = c.building /\ r.room = c.room
\* The rows are the records, one to one and in order; the keys of
\* self.selected are the row ids, and each check mark shows the flag.
TableInStep ==
    /\ Len(tree) = Len(courses)
    /\ \A i \in 1..Len(tree) : Shows(tree[i], courses[i])
    /\ \A i, j \in 1..Len(tree) : tree[i].iid = tree[j].iid => i = j
    /\ DOMAIN selected = {tree[i].iid : i \in 1..Len(tree)}
    /\ \A i \in 1..Len(tree) : tree[i].check = selected[tree[i].iid]
\* The records of the first n rows whose flag is true, in table order.
RECURSIVE FlaggedRecords(_)
FlaggedRecords(n) ==
    IF n = 0 THEN <<>>
    ELSE FlaggedRecords(n - 1)
         \o (IF selected[tree[n].iid] THEN <<courses[n]>> ELSE <<>>)
\* A run of generate_ics: it leaves its list, its lines and its file behind.
Generated == <<pc, exported, bounds, clock, lines, file>>

\* C20: after any sequence of fetch completions, cell clicks, Select All and
\* Deselect All the rows of the table are the records of self.courses, one to
\* one and in order, and self.selected has exactly the row ids as keys;
\* Generate takes the records whose row flag is true, in table order, and
\* passes them unchanged to generate_ics; no file is written when no row is
\* flagged or the confirmation is declined.
C20_TableAndExport ==
    /\ []TableInStep
    /\ [][Top(modal') \in {"confirm", "warning"} /\ Len(modal') > Len(modal) =>
              /\ chosen' = FlaggedRecords(Len(tree))
              /\ Top(modal') = "warning" <=> chosen' = <<>>]_vars
    /\ [][Generated' # Generated =>
              /\ Top(modal) = "confirm"
              /\ Top(modal') # "confirm"
              /\ chosen # <<>>
              /\ exported' = chosen]_vars
C20_SecondTableExported ==
    /\ pc = "exported"
    /\ Top(modal) = "success"
    /\ Len(tree) = 2
    /\ tree[1].iid > 1
    /\ ~selected[tree[1].iid] /\ selected[tree[2].iid]
    /\ exported = <<courses[2]>>

====
